---- MODULE Spec2Model ----
(***************************************************************************)
(* Matching decision engine of test-step-bdd-matching:                     *)
(*   MatchingPipeline.match and _should_skip_reranker (src/src/pipeline.py)*)
(*   FallbackChain.execute_fallbacks and its stages (src/src/fallback.py), *)
(*   Normalizer, Chunker, Clustering, Embedder and BatchProcessor          *)
(*   (src/src/normalizer.py, chunker.py, clustering.py, embedder.py,       *)
(*   batch_processor.py), each under a specification of its own.           *)
(*                                                                         *)
(* Scores are exact rationals held as integers in units of 0.05: 0.65 is   *)
(* 13, 0.70 is 14, 0.5 is 10.  Python's None is the empty sequence         *)
(* and a present value v is <<v>>.                                         *)
(***************************************************************************)
EXTENDS Integers, Sequences, FiniteSets, TLC

VARIABLES
    cfg,               \* the Config object handed to the pipeline / the chain
    usage,             \* external store: usage_count of each individual step
    nCalls,            \* number of match calls started so far
    pc,                \* position inside MatchingPipeline.match
    candidates,        \* match: result of retrieval.retrieve
    should_skip,       \* match: first component of _should_skip_reranker
    skip_reason,       \* match: second component of _should_skip_reranker
    reranked,          \* match: result of reranker.rerank
    top_k_candidates,  \* match: the top-K list being built
    result,            \* match: the MatchResult returned (None until return)
    calls,             \* match: collaborator calls issued by this call, in order
    fpc,               \* position inside FallbackChain.execute_fallbacks
    fin,               \* execute_fallbacks: its arguments
    fresult,           \* execute_fallbacks: the FallbackResult returned
    fraised,           \* execute_fallbacks: the exception that left it, if any
    fcalls,            \* execute_fallbacks: collaborator calls issued, in order
    fstages,           \* execute_fallbacks: <<stage, success>> of every stage run
    npc,               \* position of the caller of Normalizer.normalize
    ntext,             \* normalize: the text handed to it (a list of words)
    nres,              \* normalize: the NormalizedResult of ntext
    nagain,            \* normalize: the NormalizedResult of nres.normalized_text
    ppc,               \* position inside Normalizer._extract_placeholders
    ptext,             \* _extract_placeholders: its text (a list of words)
    placeholders,      \* _extract_placeholders: the placeholders list
    offset,            \* _extract_placeholders: the running offset
    wpc,               \* position inside FallbackChain._cluster_aggregation_weak
    weak_candidates,   \* _cluster_aggregation_weak: the candidates retrieved
    weak_result,       \* _cluster_aggregation_weak: what it returned or raised
    clpc,              \* position of the caller of a Clustering method
    clustering,        \* the Clustering object: method and min_cluster_size
    cluster_labels,    \* cluster: the label fit_predict gave to every index
    filtered_clusters, \* cluster: the mapping returned
    cluster_chunks,    \* select_canonical_template: its argument
    canonical_template, \* select_canonical_template: the text returned
    cpc,               \* position inside Chunker.chunk
    chunker,           \* the Chunker object: min_tokens, max_tokens, nlp
    ctext,             \* chunk: the text handed to it (a list of words)
    chunks,            \* chunk: the segments left after noise filtering
    idx,               \* chunk: index of the segment the loop is at
    chunk_result,      \* chunk: the list of Chunk objects built so far
    epc,               \* position of every caller inside Embedder.embed / embed_batch
    eobj,              \* the Embedder object every caller calls
    etext,             \* embed: the text of every caller
    embedding,         \* embed: the local variable `embedding` of every caller
    eret,              \* what the call of every caller returned or raised
    ecache,            \* Embedder._cache of every Embedder object
    edisk,             \* the files of the shared cache directory, by cache key
    encoded,           \* how often model.encode has encoded every text
    nEmbed,            \* number of embed / embed_batch calls started
    batch_texts,       \* embed_batch: its argument texts
    uncached_indices,  \* embed_batch: positions of the texts to encode
    embeddings,        \* embed_batch: the list returned
    bpc,               \* position inside BatchProcessor.process_csv / process_json
    bformat,           \* which of the two methods runs: "csv" or "json"
    brows,             \* the rows of the input file, as read
    blimit,            \* the limit argument (0: None or 0, no limit)
    row_idx,           \* number of rows the loop has consumed
    results,           \* the results list: position and MatchResult of matched rows
    braised            \* the exception that left the method, if any

matchVars == <<pc, candidates, should_skip, skip_reason, reranked,
               top_k_candidates, result, calls, usage, nCalls>>
fbVars == <<fpc, fin, fresult, fraised, fcalls, fstages>>
nzVars == <<npc, ntext, nres, nagain>>
phVars == <<ppc, ptext, placeholders, offset>>
wkVars == <<wpc, weak_candidates, weak_result>>
clVars == <<clpc, clustering, cluster_labels, filtered_clusters, cluster_chunks,
            canonical_template>>
chVars == <<cpc, chunker, ctext, chunks, idx, chunk_result>>
emVars == <<epc, eobj, etext, embedding, eret, ecache, edisk, encoded, nEmbed,
            batch_texts, uncached_indices, embeddings>>
bpVars == <<bpc, bformat, brows, blimit, row_idx, results, braised>>
ioVars == <<emVars, bpVars>>
prepVars == <<nzVars, phVars, wkVars, clVars, chVars, ioVars>>
\* what the steps of one component leave alone
notNz == <<cfg, matchVars, fbVars, phVars, wkVars, clVars, chVars, ioVars>>
notPh == <<cfg, matchVars, fbVars, nzVars, wkVars, clVars, chVars, ioVars>>
notWk == <<cfg, matchVars, fbVars, nzVars, phVars, clVars, chVars, ioVars>>
notCl == <<cfg, matchVars, fbVars, nzVars, phVars, wkVars, chVars, ioVars>>
notCh == <<cfg, matchVars, fbVars, nzVars, phVars, wkVars, clVars, ioVars>>
notEm == <<cfg, matchVars, fbVars, nzVars, phVars, wkVars, clVars, chVars, bpVars>>
vars == <<cfg, matchVars, fbVars, prepVars>>

None == <<>>
Some(v) == <<v>>

\* nobody is inside Normalizer.normalize
NormalizerIdle == npc = "idle" /\ ntext = <<>> /\ nres = None /\ nagain = None

\* nobody is inside Normalizer._extract_placeholders
ExtractIdle == ppc = "idle" /\ ptext = <<>> /\ placeholders = <<>> /\ offset = 0

\* nobody is inside FallbackChain._cluster_aggregation_weak on its own
WeakIdle == wpc = "idle" /\ weak_candidates = <<>> /\ weak_result = None

\* nobody is inside a Clustering method
ClusteringIdle ==
    /\ clpc = "idle" /\ clustering = None /\ cluster_labels = <<>>
    /\ filtered_clusters = None /\ cluster_chunks = <<>> /\ canonical_template = None

\* nobody is inside Chunker.chunk
ChunkerIdle ==
    /\ cpc = "idle" /\ chunker = None /\ ctext = <<>> /\ chunks = <<>>
    /\ idx = 0 /\ chunk_result = <<>>

\* no Embedder has been constructed
EmbedderIdle ==
    /\ epc = <<>> /\ eobj = <<>> /\ etext = <<>> /\ embedding = <<>> /\ eret = <<>>
    /\ ecache = <<>> /\ edisk = <<>> /\ encoded = <<>> /\ nEmbed = 0
    /\ batch_texts = <<>> /\ uncached_indices = <<>> /\ embeddings = <<>>

\* no batch is being processed
BatchIdle ==
    /\ bpc = "idle" /\ bformat = "" /\ brows = <<>> /\ blimit = 0 /\ row_idx = 0
    /\ results = <<>> /\ braised = None

IoIdle == EmbedderIdle /\ BatchIdle

PrepIdle ==
    NormalizerIdle /\ ExtractIdle /\ WeakIdle /\ ClusteringIdle /\ ChunkerIdle
    /\ IoIdle

----------------------------------------------------------------------------
(* Bounds of the model *)

MaxCands == 3    \* longest list the vector index returns (the limit passed)
MaxCalls == 2    \* match calls in one behaviour
MaxRelaxed == 4  \* longest list a fallback retrieval returns (the limit passed)

(* Program constants *)
VectorThreshold == 13   \* vector_threshold = 0.65, in units of 0.05
ClusterMinWeak == 3     \* len(cluster_cands) > 3
SynthScore == 10        \* (None, 0.5, synthetic_candidate)

Ids == 1 .. MaxCands             \* SERIAL primary keys of individual steps
VectorScores == {6, 13, 18}      \* similarities 0.30, 0.65, 0.90
RerankScores == {-20, 0, 14}     \* cross-encoder scores -1.0, 0.0, 0.70
FbScores == {6, 13}              \* weak similarities met by the fallback chain
FbRerankScores == {0, 14}        \* cross-encoder scores met by the fallback chain
ClusterIds == {0, 1, 2}          \* 0: no cluster_id in the payload

----------------------------------------------------------------------------
(* Sequence helpers *)

Range(s) == {s[i] : i \in DOMAIN s}

Take(s, n) == SubSeq(s, 1, IF n < Len(s) THEN (IF n < 0 THEN 0 ELSE n) ELSE Len(s))

Min2(a, b) == IF a <= b THEN a ELSE b

RECURSIVE SumSeq(_)
SumSeq(s) == IF s = <<>> THEN 0 ELSE Head(s) + SumSeq(Tail(s))

\* list.sort(key=score, reverse=True): stable, descending
RECURSIVE InsertDesc(_, _)
InsertDesc(sorted, x) ==
    IF sorted = <<>> THEN <<x>>
    ELSE IF Head(sorted).score >= x.score
         THEN <<Head(sorted)>> \o InsertDesc(Tail(sorted), x)
         ELSE <<x>> \o sorted

RECURSIVE SortDescStable(_)
SortDescStable(s) ==
    IF s = <<>> THEN <<>>
    ELSE InsertDesc(SortDescStable(SubSeq(s, 1, Len(s) - 1)), s[Len(s)])

----------------------------------------------------------------------------
(* Configuration.  Config (src/src/config.py) declares no dynamic_reranking *)
(* field, so the attribute is None here for a Config built by load_config   *)
(* and Some(section) for a configuration object that carries the section.   *)

DynamicReranking(en, k, minp, gap, sep, topp, kminp) ==
    [enabled |-> en, target_top_k |-> k, min_percentile_rank |-> minp,
     percentile_gap_threshold |-> gap, cluster_separation |-> sep,
     top_percentile_threshold |-> topp, top_k_min_percentile |-> kminp]

DynamicRerankingSections ==
    { DynamicReranking(TRUE, 2, 90, 30, 3, 95, 85),
      DynamicReranking(TRUE, 2, 90, 50, 3, 95, 50),
      DynamicReranking(TRUE, 1, 90, 50, 3, 95, 85),
      DynamicReranking(FALSE, 2, 90, 30, 3, 95, 85) }

FallbackConfigs ==
    [enable_rule_synthesis : BOOLEAN, enable_llm_synthesis : BOOLEAN,
     enable_context_expansion : BOOLEAN, enable_lexical_search : BOOLEAN]

DefaultFallbacks ==
    [enable_rule_synthesis |-> TRUE, enable_llm_synthesis |-> FALSE,
     enable_context_expansion |-> TRUE, enable_lexical_search |-> TRUE]

MakeConfig(dr, rtopk, fb) ==
    [dynamic_reranking |-> dr,
     reranker_top_k |-> rtopk,
     top_k_results |-> 2,
     min_score_threshold |-> 0,
     med_conf |-> 14,
     fallbacks |-> fb]

\* mutant: load_config also builds a dynamic_reranking section
load_config_with_section(rtopk, fb) ==
    MakeConfig(Some(DynamicReranking(TRUE, 2, 90, 30, 3, 95, 85)), rtopk, fb)

\* load_config: every field of Config, and no dynamic_reranking
load_config(rtopk, fb) == MakeConfig(None, rtopk, fb)

MatchConfigs ==
    {MakeConfig(Some(d), 2, DefaultFallbacks) : d \in DynamicRerankingSections}
    \cup {MakeConfig(Some(DynamicReranking(FALSE, 2, 90, 30, 3, 95, 85)), 0,
                     DefaultFallbacks)}
    \cup {load_config(2, DefaultFallbacks)}

----------------------------------------------------------------------------
(* MatchingPipeline._should_skip_reranker *)

Scores(cands) == [i \in DOMAIN cands |-> cands[i].sim]

\* the k-th smallest element (1-based) of a non-empty sequence of numbers
KthSmallest(s, k) ==
    CHOOSE x \in Range(s) :
        /\ Cardinality({i \in DOMAIN s : s[i] < x}) < k
        /\ Cardinality({i \in DOMAIN s : s[i] <= x}) >= k

\* 100 * np.percentile(s, q), linear interpolation between closest ranks
Percentile100(s, q) ==
    LET n  == Len(s)
        h  == q * (n - 1)
        lo == h \div 100
        r  == h % 100
        a  == KthSmallest(s, lo + 1)
        b  == KthSmallest(s, Min2(lo + 2, n))
    IN  100 * a + r * (b - a)

\* get_percentile_rank(score, all_scores) * len(all_scores) / 100
RankCount(score, s) == Cardinality({i \in DOMAIN s : s[i] <= score})

\* mutant: the count compared with < instead of <=
TooFewCandidatesStrict(dr, s) == Len(s) < dr.target_top_k

TooFewCandidates(dr, s) == Len(s) <= dr.target_top_k

HighPercentileFloor(dr, s) ==
    \A i \in 1 .. dr.target_top_k :
        100 * s[i] >= Percentile100(s, dr.min_percentile_rank)

\* gap = p5_rank - p6_rank; gap >= percentile_gap_threshold
PercentileGap(dr, s) ==
    /\ Len(s) > dr.target_top_k
    /\ 100 * (RankCount(s[dr.target_top_k], s) - RankCount(s[dr.target_top_k + 1], s))
          >= dr.percentile_gap_threshold * Len(s)

\* np.mean(top_k_scores) - np.mean(rest_scores) > cluster_separation
ClusterSeparation(dr, s) ==
    LET k    == dr.target_top_k
        top  == SubSeq(s, 1, k)
        rest == SubSeq(s, k + 1, Len(s))
    IN  /\ rest # <<>>
        /\ SumSeq(top) * Len(rest) - SumSeq(rest) * k
              > dr.cluster_separation * k * Len(rest)

TopDominance(dr, s) ==
    /\ 100 * s[1] >= Percentile100(s, dr.top_percentile_threshold)
    /\ \A i \in 1 .. dr.target_top_k :
           100 * s[i] >= Percentile100(s, dr.top_k_min_percentile)

Decision(sk, why) == [raised |-> None, skip |-> sk, reason |-> why]

\* mutant: the percentile gap is tested before the percentile floor
ShouldSkipRerankerGapFirst(config, cands) ==
    IF config.dynamic_reranking = None
    THEN [raised |-> Some("'Config' object has no attribute 'dynamic_reranking'"),
          skip |-> FALSE, reason |-> ""]
    ELSE LET dr == config.dynamic_reranking[1]
             s  == Scores(cands)
         IN  IF ~dr.enabled THEN Decision(FALSE, "Dynamic reranking disabled")
             ELSE IF TooFewCandidates(dr, s) THEN Decision(TRUE, "too few candidates")
             ELSE IF PercentileGap(dr, s) THEN Decision(TRUE, "percentile gap")
             ELSE IF HighPercentileFloor(dr, s) THEN Decision(TRUE, "percentile floor")
             ELSE IF ClusterSeparation(dr, s) THEN Decision(TRUE, "cluster separation")
             ELSE IF TopDominance(dr, s) THEN Decision(TRUE, "top dominance")
             ELSE Decision(FALSE, "Scores too ambiguous, using reranker")

\* config.dynamic_reranking.enabled is read first: a Config without the
\* section raises AttributeError there
ShouldSkipReranker(config, cands) ==
    IF config.dynamic_reranking = None
    THEN [raised |-> Some("'Config' object has no attribute 'dynamic_reranking'"),
          skip |-> FALSE, reason |-> ""]
    ELSE LET dr == config.dynamic_reranking[1]
             s  == Scores(cands)
         IN  IF ~dr.enabled THEN Decision(FALSE, "Dynamic reranking disabled")
             ELSE IF TooFewCandidates(dr, s) THEN Decision(TRUE, "too few candidates")
             ELSE IF HighPercentileFloor(dr, s) THEN Decision(TRUE, "percentile floor")
             ELSE IF PercentileGap(dr, s) THEN Decision(TRUE, "percentile gap")
             ELSE IF ClusterSeparation(dr, s) THEN Decision(TRUE, "cluster separation")
             ELSE IF TopDominance(dr, s) THEN Decision(TRUE, "top dominance")
             ELSE Decision(FALSE, "Scores too ambiguous, using reranker")

----------------------------------------------------------------------------
(* Collaborators of MatchingPipeline.match *)

\* Database.vector_search: at most MaxCands rows (the limit), distinct
\* SERIAL ids, ORDER BY distance, i.e. similarity descending
CandidateLists ==
    UNION { {cs \in [1 .. n -> [id : Ids, sim : VectorScores]] :
                /\ \A i, j \in 1 .. n : i # j => cs[i].id # cs[j].id
                /\ \A i \in 2 .. n : cs[i - 1].sim >= cs[i].sim}
            : n \in 0 .. MaxCands }

\* Reranker.rerank(query, candidates, top_k) with model.predict giving
\* score f[i] to candidates[i]
Rerank(cands, f, top_k) ==
    IF cands = <<>> THEN <<>>
    ELSE LET scored == [i \in DOMAIN cands |-> [id |-> cands[i].id, score |-> f[i]]]
             sorted == SortDescStable(scored)
         IN  IF top_k # 0 THEN Take(sorted, top_k) ELSE sorted

\* the exception text of a failing collaborator
ExcText(op) == <<op, "failed">>

\* one collaborator call: what was called, with which id, and the exception
\* it raised (None when it returned)
Call(op, arg, e) == [op |-> op, arg |-> arg, exc |-> e]

----------------------------------------------------------------------------
(* MatchingPipeline.match *)

MatchResult(action, topk, selected, rscore, vsim, text, note) ==
    [final_action |-> action, top_k_candidates |-> topk,
     selected_candidate_id |-> selected, reranker_score |-> rscore,
     vector_similarity |-> vsim, normalized_text |-> text, notes |-> note]

\* except Exception as e: (lines 310-327)
ErrorResult(e) ==
    MatchResult("NEW_BDD_REQUIRED", <<>>, None, None, None, "", <<"Error: ", e>>)

\* if not candidates: (lines 132-150)
NoCandidatesResult ==
    MatchResult("NEW_BDD_REQUIRED", <<>>, None, None, None, "normalized",
                <<"No candidates found in vector search">>)

\* mutant: the empty reranking falls through to the selection of the top
\* vector candidate
NoRerankResultSelecting(cands) ==
    MatchResult("NEW_BDD_REQUIRED", <<>>, Some(cands[1].id), None,
                Some(cands[1].sim), "normalized", <<"Reranking returned no results">>)

\* if not reranked: (lines 192-209)
NoRerankResult(cands) ==
    MatchResult("NEW_BDD_REQUIRED", <<>>, None, None, Some(cands[1].sim),
                "normalized", <<"Reranking returned no results">>)

TopKEntry(id, rscore, vsim) ==
    [individual_step_id |-> id, reranker_score |-> rscore, vector_similarity |-> vsim]

\* lines 159-178: the first min(target_top_k, len) vector candidates
TopKFromVector(config, cands) ==
    LET top_k == Min2(config.dynamic_reranking[1].target_top_k, Len(cands))
    IN  [i \in 1 .. top_k |-> TopKEntry(cands[i].id, None, Some(cands[i].sim))]

\* lines 216-222: the vector similarity of the candidate with that id
VectorSimOf(cands, id) ==
    IF \E i \in DOMAIN cands : cands[i].id = id
    THEN Some(cands[CHOOSE i \in DOMAIN cands :
                  /\ cands[i].id = id
                  /\ \A j \in DOMAIN cands : cands[j].id = id => i <= j].sim)
    ELSE None

\* lines 212-237: the first min(top_k_results, len) reranked candidates
TopKFromReranked(config, cands, rr) ==
    LET top_k == Min2(config.top_k_results, Len(rr))
    IN  [i \in 1 .. top_k |->
            TopKEntry(rr[i].id, Some(rr[i].score), VectorSimOf(cands, rr[i].id))]

\* mutant: every returned candidate must clear the threshold
HasGoodMatchAll(config, skip, topk) ==
    IF skip
    THEN \A i \in DOMAIN topk : topk[i].vector_similarity[1] >= VectorThreshold
    ELSE \A i \in DOMAIN topk : topk[i].reranker_score[1] >= config.min_score_threshold

\* lines 262-278: 1-to-many threshold
HasGoodMatch(config, skip, topk) ==
    IF skip
    THEN \E i \in DOMAIN topk : topk[i].vector_similarity[1] >= VectorThreshold
    ELSE \E i \in DOMAIN topk : topk[i].reranker_score[1] >= config.min_score_threshold

\* lines 181-184 and 240-246: the candidate selected for display and usage
TopCandidateId(skip, cands, rr) == IF skip THEN cands[1].id ELSE rr[1].id

TopRerankerScore(skip, rr) == IF skip THEN None ELSE Some(rr[1].score)

\* lines 288-308
FinalResult(action, skip, reason, cands, rr, topk) ==
    MatchResult(action, topk, Some(TopCandidateId(skip, cands, rr)),
                TopRerankerScore(skip, rr), Some(cands[1].sim), "normalized",
                IF skip THEN <<reason>> ELSE <<"">>)

Return(r) == result' = Some(r) /\ pc' = "done"

\* a collaborator call that returned
Did(op, arg) == calls' = Append(calls, Call(op, arg, None))

\* mutant: no handler, the exception leaves match
Uncaught(e) == result' = None /\ pc' = "propagated"

\* the try block is left by exception e: except Exception as e (line 310)
Caught(e) == Return(ErrorResult(e))

\* mutant: a failed collaborator call is issued a second time
FailedAndRetried(op, arg, e) ==
    /\ calls' = calls \o <<Call(op, arg, Some(e)), Call(op, arg, Some(e))>>
    /\ Caught(e)

\* a collaborator call that raised
Failed(op, arg, e) == calls' = Append(calls, Call(op, arg, Some(e))) /\ Caught(e)

\* a caller invokes pipeline.match(...)
CallMatch ==
    /\ pc \in {"idle", "done"}
    /\ nCalls < MaxCalls
    /\ nCalls' = nCalls + 1
    /\ pc' = "normalize"
    /\ candidates' = <<>> /\ should_skip' = None /\ skip_reason' = ""
    /\ reranked' = <<>> /\ top_k_candidates' = <<>>
    /\ result' = None /\ calls' = <<>>
    /\ UNCHANGED <<cfg, usage, fbVars, prepVars>>

\* Step 1: self.normalizer.normalize(query_text)
Normalize ==
    /\ pc = "normalize"
    /\ \/ Did("normalize", 0) /\ pc' = "embed" /\ UNCHANGED result
       \/ Failed("normalize", 0, ExcText("normalize"))
    /\ UNCHANGED <<cfg, usage, nCalls, candidates, should_skip, skip_reason,
                   reranked, top_k_candidates, fbVars, prepVars>>

\* Step 2: self.embedder.embed(normalized.normalized_text)
Embed ==
    /\ pc = "embed"
    /\ \/ Did("embed", 0) /\ pc' = "retrieve" /\ UNCHANGED result
       \/ Failed("embed", 0, ExcText("embed"))
    /\ UNCHANGED <<cfg, usage, nCalls, candidates, should_skip, skip_reason,
                   reranked, top_k_candidates, fbVars, prepVars>>

\* mutant: the `if not candidates` return is missing, so candidates[0][1]
\* (line 152) raises IndexError on the empty list
RetrieveWithoutEmptyCheck ==
    /\ pc = "retrieve"
    /\ \/ \E cs \in CandidateLists :
            /\ Did("retrieve", 0)
            /\ candidates' = cs
            /\ IF cs = <<>>
               THEN Caught(<<"list index out of range">>)
               ELSE pc' = "decide" /\ UNCHANGED result
       \/ Failed("retrieve", 0, ExcText("retrieve")) /\ UNCHANGED candidates
    /\ UNCHANGED <<cfg, usage, nCalls, should_skip, skip_reason,
                   reranked, top_k_candidates, fbVars, prepVars>>

\* Step 3: self.retrieval.retrieve(...) and the no-candidates return
Retrieve ==
    /\ pc = "retrieve"
    /\ \/ \E cs \in CandidateLists :
            /\ Did("retrieve", 0)
            /\ candidates' = cs
            /\ IF cs = <<>>
               THEN Return(NoCandidatesResult)
               ELSE pc' = "decide" /\ UNCHANGED result
       \/ Failed("retrieve", 0, ExcText("retrieve")) /\ UNCHANGED candidates
    /\ UNCHANGED <<cfg, usage, nCalls, should_skip, skip_reason,
                   reranked, top_k_candidates, fbVars, prepVars>>

\* Step 4: self._should_skip_reranker(candidates); on skip the top-K list is
\* built from the vector results
RerankDecision ==
    /\ pc = "decide"
    /\ LET d == ShouldSkipReranker(cfg, candidates)
       IN  IF d.raised # None
           THEN /\ Failed("should_skip", 0, <<d.raised[1]>>)
                /\ UNCHANGED <<should_skip, skip_reason, top_k_candidates>>
           ELSE /\ Did("should_skip", 0)
                /\ should_skip' = Some(d.skip)
                /\ skip_reason' = d.reason
                /\ UNCHANGED result
                /\ IF d.skip
                   THEN /\ top_k_candidates' = TopKFromVector(cfg, candidates)
                        /\ pc' = "threshold"
                   ELSE /\ pc' = "rerank"
                        /\ UNCHANGED top_k_candidates
    /\ UNCHANGED <<cfg, usage, nCalls, candidates, reranked, fbVars, prepVars>>

\* lines 186-243: self.reranker.rerank(...) on candidates[:reranker.top_k]
RerankStep ==
    /\ pc = "rerank"
    /\ LET candidate_dicts == Take(candidates, cfg.reranker_top_k)
       IN  \/ \E f \in [DOMAIN candidate_dicts -> RerankScores] :
                LET rr == Rerank(candidate_dicts, f, cfg.reranker_top_k)
                IN  /\ Did("rerank", 0)
                    /\ reranked' = rr
                    /\ IF rr = <<>>
                       THEN Return(NoRerankResult(candidates))
                            /\ UNCHANGED top_k_candidates
                       ELSE /\ top_k_candidates' = TopKFromReranked(cfg, candidates, rr)
                            /\ pc' = "threshold"
                            /\ UNCHANGED result
           \/ /\ Failed("rerank", 0, ExcText("rerank"))
              /\ UNCHANGED <<reranked, top_k_candidates>>
    /\ UNCHANGED <<cfg, usage, nCalls, candidates, should_skip, skip_reason, fbVars, prepVars>>

\* mutant: the truthiness test inverted
ShouldIncrementInverted(id) == id = 0

\* if top_candidate_id: (line 283)
ShouldIncrement(id) == id # 0

\* mutant: the usage counter is incremented whatever the threshold test says
ThresholdAndReturnAlwaysCounting ==
    /\ pc = "threshold"
    /\ LET skip == should_skip[1]
           id   == TopCandidateId(skip, candidates, reranked)
       IN  /\ Did("increment", id)
           /\ usage' = [usage EXCEPT ![id] = @ + 1]
           /\ Return(FinalResult(IF HasGoodMatch(cfg, skip, top_k_candidates)
                                 THEN "REUSED_TEMPLATE" ELSE "NEW_BDD_REQUIRED",
                                 skip, skip_reason, candidates, reranked,
                                 top_k_candidates))
    /\ UNCHANGED <<cfg, nCalls, candidates, should_skip, skip_reason, reranked,
                   top_k_candidates, fbVars, prepVars>>

\* lines 245-308: threshold policy, usage increment, and the return
ThresholdAndReturn ==
    /\ pc = "threshold"
    /\ LET skip == should_skip[1]
           id   == TopCandidateId(skip, candidates, reranked)
       IN  IF HasGoodMatch(cfg, skip, top_k_candidates)
           THEN IF ShouldIncrement(id)
                THEN \/ /\ Did("increment", id)
                        /\ usage' = [usage EXCEPT ![id] = @ + 1]
                        /\ Return(FinalResult("REUSED_TEMPLATE", skip, skip_reason,
                                      candidates, reranked, top_k_candidates))
                     \/ /\ Failed("increment", id, ExcText("increment"))
                        /\ UNCHANGED usage
                ELSE /\ Return(FinalResult("REUSED_TEMPLATE", skip, skip_reason,
                                      candidates, reranked, top_k_candidates))
                     /\ UNCHANGED <<calls, usage>>
           ELSE /\ Return(FinalResult("NEW_BDD_REQUIRED", skip, skip_reason,
                                      candidates, reranked, top_k_candidates))
                /\ UNCHANGED <<calls, usage>>
    /\ UNCHANGED <<cfg, nCalls, candidates, should_skip, skip_reason, reranked,
                   top_k_candidates, fbVars, prepVars>>

FallbackIdle ==
    /\ fpc = "idle" /\ fin = <<>> /\ fresult = None /\ fraised = None
    /\ fcalls = <<>> /\ fstages = <<>>

Init ==
    /\ cfg \in MatchConfigs
    /\ usage = [i \in Ids |-> 0]
    /\ nCalls = 0
    /\ pc = "idle"
    /\ candidates = <<>> /\ should_skip = None /\ skip_reason = ""
    /\ reranked = <<>> /\ top_k_candidates = <<>>
    /\ result = None /\ calls = <<>>
    /\ FallbackIdle
    /\ PrepIdle

Next ==
    \/ CallMatch
    \/ Normalize
    \/ Embed
    \/ Retrieve
    \/ RerankDecision
    \/ RerankStep
    \/ ThresholdAndReturn

Spec == Init /\ [][Next]_vars

----------------------------------------------------------------------------
(* match from the point where vector search has returned a longer list:    *)
(* the rerank decision and what follows it, over every score distribution  *)
(* of up to MaxScores candidates                                           *)

MaxScores == 4   \* longest list of vector-search scores the decision sees

\* a section whose gap threshold (25 points) a list of four can meet exactly,
\* and whose separation margin (1.0) no list exceeds
GapSection == DynamicReranking(TRUE, 2, 90, 25, 20, 95, 85)

DecisionConfigs ==
    {MakeConfig(Some(d), 2, DefaultFallbacks) :
        d \in DynamicRerankingSections \cup {GapSection}}

\* the rows of vector_search, ids in order of rank
DecisionLists ==
    UNION { {cs \in [1 .. n -> [id : 1 .. MaxScores, sim : VectorScores]] :
                /\ \A i \in 1 .. n : cs[i].id = i
                /\ \A i \in 2 .. n : cs[i - 1].sim >= cs[i].sim}
            : n \in 1 .. MaxScores }

InitDecision ==
    /\ cfg \in DecisionConfigs
    /\ usage = [i \in 1 .. MaxScores |-> 0]
    /\ nCalls = 1
    /\ pc = "decide"
    /\ candidates \in DecisionLists
    /\ should_skip = None /\ skip_reason = ""
    /\ reranked = <<>> /\ top_k_candidates = <<>>
    /\ result = None
    /\ calls = <<Call("normalize", 0, None), Call("embed", 0, None),
                 Call("retrieve", 0, None)>>
    /\ FallbackIdle
    /\ PrepIdle

NextDecision ==
    \/ RerankDecision
    \/ RerankStep
    \/ ThresholdAndReturn

SpecDecision == InitDecision /\ [][NextDecision]_vars

----------------------------------------------------------------------------
(* FallbackChain (src/src/fallback.py) *)

FallbackResult(ok, cands, used, label) ==
    [success |-> ok, candidates |-> cands, fallback_used |-> used,
     confidence_label |-> label]

Failure(stage) == FallbackResult(FALSE, <<>>, stage, "NO_MATCH")

\* what one stage does: the collaborator calls it issued, then either the
\* exception that left it or the FallbackResult it returned
Outcome(ops, exc, res) == [calls |-> ops, raised |-> exc, result |-> res]

Prefixed(ops, outs) == {[o EXCEPT !.calls = ops \o @] : o \in outs}

Raised(op) == Outcome(<<op>>, Some(ExcText(op)), None)

\* candidate lists a fallback retrieval can return: at most MaxRelaxed rows,
\* similarity descending, ids named by rank, cluster_id 0 standing for a
\* payload without a (truthy) cluster_id
FbCandidateLists ==
    UNION { { [i \in 1 .. n |-> [id |-> i, sim |-> q[i][1], cluster_id |-> q[i][2]]]
              : q \in {r \in [1 .. n -> FbScores \X ClusterIds] :
                          \A i \in 2 .. n : r[i - 1][1] >= r[i][1]} }
            : n \in 0 .. MaxRelaxed }

\* the same lists as the reranking stages see them, whichever limit the stage
\* passes: those stages read only the payloads (c[2]) and of them only the id
RerankLists == { [i \in 1 .. n |-> [id |-> i]] : n \in 0 .. MaxRelaxed }

\* formatted_candidates: (candidate_dict.get('id'), score, candidate_dict)
Formatted(rr) == [i \in DOMAIN rr |-> [id |-> Some(rr[i].id), score |-> rr[i].score]]

\* mutant: any reranked list is accepted, labelled by its best score
RerankedVerdictAnyScore(stage, config, rr) ==
    IF rr # <<>>
    THEN FallbackResult(TRUE, Formatted(rr), stage,
             IF rr[1].score >= config.med_conf THEN "MED_CONF" ELSE "LOW_CONF")
    ELSE Failure(stage)

\* the common tail of the three reranking stages:
\*   if not candidates: fail; reranked = rerank(...);
\*   if reranked and reranked[0][1] >= med_conf: success
RerankedVerdict(stage, config, rr) ==
    IF rr # <<>> /\ rr[1].score >= config.med_conf
    THEN FallbackResult(TRUE, Formatted(rr), stage,
             IF rr[1].score >= config.med_conf THEN "MED_CONF" ELSE "LOW_CONF")
    ELSE Failure(stage)

RerankTail(stage, config, cs) ==
    IF cs = <<>>
    THEN {Outcome(<<>>, None, Some(Failure(stage)))}
    ELSE {Raised("rerank")}
         \cup {Outcome(<<"rerank">>, None,
                   Some(RerankedVerdict(stage, config, Rerank(cs, f, config.reranker_top_k))))
               : f \in [DOMAIN cs -> FbRerankScores]}

\* Fallback 1 (lines 85-116)
relaxed_search(config, in) ==
    {Raised("retrieve")}
    \cup Prefixed(<<"retrieve">>,
            UNION {RerankTail("relaxed_search", config, cs) : cs \in RerankLists})

\* Fallback 2 (lines 118-150)
context_expansion(config, in) ==
    {Raised("normalize")}
    \cup Prefixed(<<"normalize">>, {Raised("embed")})
    \cup Prefixed(<<"normalize", "embed">>, {Raised("retrieve")})
    \cup Prefixed(<<"normalize", "embed", "retrieve">>,
            UNION {RerankTail("context_expansion", config, cs) : cs \in RerankLists})

\* Fallback 3 (lines 152-176)
lexical_search(config, in) ==
    {Raised("lexical_search")}
    \cup Prefixed(<<"lexical_search">>,
            UNION {RerankTail("lexical_search", config, cs) : cs \in RerankLists})

\* lines 191-198: cluster ids in order of first appearance
RECURSIVE ClusterOrder(_)
ClusterOrder(cs) ==
    IF cs = <<>> THEN <<>>
    ELSE LET before == ClusterOrder(SubSeq(cs, 1, Len(cs) - 1))
             c      == cs[Len(cs)].cluster_id
         IN  IF c # 0 /\ c \notin Range(before) THEN Append(before, c) ELSE before

ClusterMembers(cs, c) == SelectSeq(cs, LAMBDA x : x.cluster_id = c)

\* max(cluster_cands, key=lambda x: x[1]): the first member of highest similarity
BestCandidate(members) ==
    members[CHOOSE i \in DOMAIN members :
                /\ \A j \in DOMAIN members : members[j].sim <= members[i].sim
                /\ \A j \in DOMAIN members : members[j].sim = members[i].sim => i <= j]

\* mutant: a cluster of 3 weak matches is enough
ClusterVerdictAtLeast(cs) ==
    LET order == ClusterOrder(cs)
        big   == {k \in DOMAIN order : Len(ClusterMembers(cs, order[k])) >= ClusterMinWeak}
    IN  IF big = {}
        THEN Failure("cluster_aggregation")
        ELSE LET k    == CHOOSE k \in big : \A m \in big : k <= m
                 best == BestCandidate(ClusterMembers(cs, order[k]))
             IN  FallbackResult(TRUE, <<[id |-> Some(best.id), score |-> best.sim]>>,
                                "cluster_aggregation", "LOW_CONF")

\* lines 200-212: the first cluster with more than 3 weak matches
ClusterVerdict(cs) ==
    LET order == ClusterOrder(cs)
        big   == {k \in DOMAIN order : Len(ClusterMembers(cs, order[k])) > ClusterMinWeak}
    IN  IF big = {}
        THEN Failure("cluster_aggregation")
        ELSE LET k    == CHOOSE k \in big : \A m \in big : k <= m
                 best == BestCandidate(ClusterMembers(cs, order[k]))
             IN  FallbackResult(TRUE, <<[id |-> Some(best.id), score |-> best.sim]>>,
                                "cluster_aggregation", "LOW_CONF")

\* lines 188-212: what the stage returns for the candidates it retrieved
WeakVerdict(cs) ==
    IF cs = <<>> THEN Failure("cluster_aggregation") ELSE ClusterVerdict(cs)

\* Fallback 4 (lines 178-212)
cluster_aggregation(config, in) ==
    {Raised("retrieve")}
    \cup {Outcome(<<"retrieve">>, None,
              Some(WeakVerdict(cs)))
          : cs \in FbCandidateLists}

\* _cluster_aggregation_weak called on its own
RetrieveWeak ==
    /\ wpc = "retrieve"
    /\ \/ \E cs \in FbCandidateLists :
            weak_candidates' = cs /\ wpc' = "group" /\ UNCHANGED weak_result
       \/ /\ weak_result' = Some(ExcText("retrieve")) /\ wpc' = "raised"
          /\ UNCHANGED weak_candidates
    /\ UNCHANGED notWk

GroupWeak ==
    /\ wpc = "group"
    /\ weak_result' = Some(WeakVerdict(weak_candidates))
    /\ wpc' = "done"
    /\ UNCHANGED <<weak_candidates, notWk>>

\* mutant: the primary object is not required
rule_synthesis_verb_only(config, in) ==
    LET normalized == in.normalized
        tags       == [i \in DOMAIN normalized.placeholders |->
                          <<"<", normalized.placeholders[i], ">">>]
        object     == IF normalized.primary_object = None THEN "None"
                      ELSE normalized.primary_object[1]
    IN  {Raised("normalize"),
         Outcome(<<"normalize">>, None,
             Some(IF normalized.action_verb = None
                  THEN Failure("rule_synthesis")
                  ELSE FallbackResult(TRUE,
                           <<[id |-> None, score |-> SynthScore,
                              template |-> <<normalized.action_verb[1], "the", object>>
                                           \o tags]>>,
                           "rule_synthesis", "LOW_CONF")))}

\* Fallback 5 (lines 214-245); in.normalized is what normalize(query_text) returns
rule_synthesis(config, in) ==
    LET normalized == in.normalized
        tags       == [i \in DOMAIN normalized.placeholders |->
                          <<"<", normalized.placeholders[i], ">">>]
    IN  {Raised("normalize"),
         Outcome(<<"normalize">>, None,
             Some(IF normalized.action_verb = None \/ normalized.primary_object = None
                  THEN Failure("rule_synthesis")
                  ELSE FallbackResult(TRUE,
                           <<[id |-> None, score |-> SynthScore,
                              template |-> <<normalized.action_verb[1], "the",
                                             normalized.primary_object[1]>> \o tags]>>,
                           "rule_synthesis", "LOW_CONF")))}

\* Fallback 6 (lines 247-251)
llm_synthesis(config, in) ==
    {Outcome(<<>>, None, Some(Failure("llm_synthesis")))}

\* mutant: lexical search tried before context expansion
StageOrderSwapped ==
    <<"relaxed_search", "lexical_search", "context_expansion",
      "cluster_aggregation", "rule_synthesis", "llm_synthesis">>

StageOrder ==
    <<"relaxed_search", "context_expansion", "lexical_search",
      "cluster_aggregation", "rule_synthesis", "llm_synthesis">>

StageIndex(stage) == CHOOSE i \in DOMAIN StageOrder : StageOrder[i] = stage

\* the position after `stage` in execute_fallbacks
AfterStage(stage) ==
    IF StageIndex(stage) < Len(StageOrder) THEN StageOrder[StageIndex(stage) + 1]
    ELSE "final"

\* mutant: rule synthesis runs whatever enable_rule_synthesis says
StageRunsIgnoringRuleFlag(stage, config, in) ==
    CASE stage = "relaxed_search"      -> in.top_reranker_score < config.med_conf
      [] stage = "context_expansion"   -> config.fallbacks.enable_context_expansion
                                          /\ in.previous_steps # <<>>
      [] stage = "lexical_search"      -> config.fallbacks.enable_lexical_search
      [] stage = "cluster_aggregation" -> TRUE
      [] stage = "rule_synthesis"      -> TRUE
      [] stage = "llm_synthesis"       -> config.fallbacks.enable_llm_synthesis

\* mutant: the comparison with med_conf guards the whole chain
StageRunsBelowThresholdOnly(stage, config, in) ==
    /\ in.top_reranker_score < config.med_conf
    /\ CASE stage = "relaxed_search"      -> TRUE
         [] stage = "context_expansion"   -> config.fallbacks.enable_context_expansion
                                             /\ in.previous_steps # <<>>
         [] stage = "lexical_search"      -> config.fallbacks.enable_lexical_search
         [] stage = "cluster_aggregation" -> TRUE
         [] stage = "rule_synthesis"      -> config.fallbacks.enable_rule_synthesis
         [] stage = "llm_synthesis"       -> config.fallbacks.enable_llm_synthesis

\* the `if` guarding each stage in execute_fallbacks (lines 43, 49, 55, 66, 72)
StageRuns(stage, config, in) ==
    CASE stage = "relaxed_search"      -> in.top_reranker_score < config.med_conf
      [] stage = "context_expansion"   -> config.fallbacks.enable_context_expansion
                                          /\ in.previous_steps # <<>>
      [] stage = "lexical_search"      -> config.fallbacks.enable_lexical_search
      [] stage = "cluster_aggregation" -> TRUE
      [] stage = "rule_synthesis"      -> config.fallbacks.enable_rule_synthesis
      [] stage = "llm_synthesis"       -> config.fallbacks.enable_llm_synthesis

StageOutcomes(stage, config, in) ==
    CASE stage = "relaxed_search"      -> relaxed_search(config, in)
      [] stage = "context_expansion"   -> context_expansion(config, in)
      [] stage = "lexical_search"      -> lexical_search(config, in)
      [] stage = "cluster_aggregation" -> cluster_aggregation(config, in)
      [] stage = "rule_synthesis"      -> rule_synthesis(config, in)
      [] stage = "llm_synthesis"       -> llm_synthesis(config, in)

\* one stage of execute_fallbacks: its guard, the stage itself, and
\* `if result.success: return result`
StageStep(stage) ==
    /\ fpc = stage
    /\ IF StageRuns(stage, cfg, fin)
       THEN \E o \in StageOutcomes(stage, cfg, fin) :
              /\ fcalls' = fcalls \o [i \in DOMAIN o.calls |-> [stage |-> stage, op |-> o.calls[i]]]
              /\ IF o.raised # None
                 THEN /\ fraised' = o.raised
                      /\ fpc' = "raised"
                      /\ UNCHANGED <<fresult, fstages>>
                 ELSE /\ fstages' = Append(fstages, [stage |-> stage, result |-> o.result[1]])
                      /\ UNCHANGED fraised
                      /\ IF o.result[1].success
                         THEN fresult' = o.result /\ fpc' = "returned"
                         ELSE fpc' = AfterStage(stage) /\ UNCHANGED fresult
       ELSE /\ fpc' = AfterStage(stage)
            /\ UNCHANGED <<fresult, fraised, fcalls, fstages>>
    /\ UNCHANGED <<cfg, fin, matchVars, prepVars>>

RelaxedSearch ==
    /\ fpc = "relaxed_search"
    /\ StageStep("relaxed_search")

ContextExpansion ==
    /\ fpc = "context_expansion"
    /\ StageStep("context_expansion")

LexicalSearch ==
    /\ fpc = "lexical_search"
    /\ StageStep("lexical_search")

ClusterAggregationWeak ==
    /\ fpc = "cluster_aggregation"
    /\ StageStep("cluster_aggregation")

RuleSynthesis ==
    /\ fpc = "rule_synthesis"
    /\ StageStep("rule_synthesis")

LlmSynthesis ==
    /\ fpc = "llm_synthesis"
    /\ StageStep("llm_synthesis")

\* Final: NEW_BDD_REQUIRED (lines 77-83)
FinalNoMatch ==
    /\ fpc = "final"
    /\ fresult' = Some(FallbackResult(FALSE, <<>>, "new_bdd_required", "NO_MATCH"))
    /\ fpc' = "returned"
    /\ UNCHANGED <<cfg, fin, fraised, fcalls, fstages, matchVars, prepVars>>

\* what Normalizer.normalize(query_text) can extract from a query
NormalizedQueries ==
    { [action_verb |-> None, primary_object |-> None, placeholders |-> <<>>],
      [action_verb |-> Some("press"), primary_object |-> None, placeholders |-> <<>>],
      [action_verb |-> Some("press"), primary_object |-> Some("button"), placeholders |-> <<>>],
      [action_verb |-> Some("enter"), primary_object |-> Some("amount"),
       placeholders |-> <<"AMOUNT">>] }

FallbackInputs ==
    [top_reranker_score : {0, 14},
     previous_steps : {<<>>, <<"open the payment form">>},
     normalized : NormalizedQueries]

MatchIdle ==
    /\ usage = [i \in Ids |-> 0] /\ nCalls = 0 /\ pc = "idle"
    /\ candidates = <<>> /\ should_skip = None /\ skip_reason = ""
    /\ reranked = <<>> /\ top_k_candidates = <<>>
    /\ result = None /\ calls = <<>>

\* execute_fallbacks(query_text, query_normalized, query_embedding,
\*                   top_reranker_score, previous_steps) has just been entered
InitFallback ==
    /\ cfg \in {load_config(2, fb) : fb \in FallbackConfigs}
    /\ fin \in FallbackInputs
    /\ fpc = StageOrder[1]
    /\ fresult = None /\ fraised = None /\ fcalls = <<>> /\ fstages = <<>>
    /\ MatchIdle
    /\ PrepIdle

NextFallback ==
    \/ RelaxedSearch
    \/ ContextExpansion
    \/ LexicalSearch
    \/ ClusterAggregationWeak
    \/ RuleSynthesis
    \/ LlmSynthesis
    \/ FinalNoMatch

SpecFallback == InitFallback /\ [][NextFallback]_vars

\* _cluster_aggregation_weak(query_text, query_normalized, query_embedding)
\* has just been entered
InitWeakCluster ==
    /\ cfg \in {load_config(2, fb) : fb \in FallbackConfigs}
    /\ MatchIdle /\ FallbackIdle /\ IoIdle /\ NormalizerIdle /\ ExtractIdle /\ ClusteringIdle /\ ChunkerIdle
    /\ wpc = "retrieve" /\ weak_candidates = <<>> /\ weak_result = None

NextWeakCluster ==
    \/ RetrieveWeak
    \/ GroupWeak

SpecWeakCluster == InitWeakCluster /\ [][NextWeakCluster]_vars

----------------------------------------------------------------------------
(* Normalizer (src/src/normalizer.py).  A text is the list of its           *)
(* whitespace-separated words; character positions are those of the words  *)
(* joined by single spaces.                                                *)

MaxWords == 4    \* longest text handed to normalize, in words

\* words of the modelled texts that the placeholder patterns match
EmailWords == {"user@example.com"}
AmountWords == {"$100"}
DateWords == {"2024-01-15"}
NumberWords == {"5"}
CountWords == {"times", "x"}

Placeholder(type, value, position) ==
    [type |-> type, value |-> value, position |-> position]

Tag(type) == "<" \o type \o ">"

\* match.start() of the i-th word in ' '.join(text)
RECURSIVE Start(_, _)
Start(text, i) == IF i = 1 THEN 0 ELSE Start(text, i - 1) + Len(text[i - 1]) + 1

Indices(text, S) ==
    SelectSeq([i \in 1 .. Len(text) |-> i], LAMBDA i : text[i] \in S)

\* re.finditer(pattern, text) for a pattern that matches the words of S whole
WordMatches(text, S) ==
    LET at == Indices(text, S)
    IN  [k \in DOMAIN at |-> [start |-> Start(text, at[k]), value |-> text[at[k]],
                              counted |-> FALSE]]

\* the matches of r'\b\d+(\.\d+)?\b' inside one word: offset and digits
NumberSpans(w) ==
    CASE w \in AmountWords -> << <<1, "100">> >>
      [] w \in DateWords   -> << <<0, "2024">>, <<5, "01">>, <<8, "15">> >>
      [] w \in NumberWords -> << <<0, w>> >>
      [] OTHER             -> <<>>

\* re.finditer(number_pattern, text); counted: followed by "times" or "x"
RECURSIVE NumberMatches(_, _)
NumberMatches(text, i) ==
    IF i > Len(text) THEN <<>>
    ELSE LET spans == NumberSpans(text[i])
             here  == [k \in DOMAIN spans |->
                          [start |-> Start(text, i) + spans[k][1],
                           value |-> spans[k][2],
                           counted |-> /\ text[i] \in NumberWords
                                       /\ i < Len(text)
                                       /\ text[i + 1] \in CountWords]]
         IN  here \o NumberMatches(text, i + 1)

\* the text after the URL and EMAIL loops: with no URL in the text the EMAIL
\* loop replaces every address exactly where it stands
AfterEmails(text) ==
    [i \in DOMAIN text |-> IF text[i] \in EmailWords THEN Tag("EMAIL") ELSE text[i]]

\* a `for match in re.finditer(pattern, text)` loop of lines 161-169 and
\* 194-202: position = match.start() - offset; offset += len(match) - len(tag)
RECURSIVE ReplaceLoop(_, _, _)
ReplaceLoop(type, matches, st) ==
    IF matches = <<>> THEN st
    ELSE LET m == Head(matches)
         IN  ReplaceLoop(type, Tail(matches),
                 [placeholders |-> Append(st.placeholders,
                                      Placeholder(type, m.value, m.start - st.offset)),
                  offset |-> st.offset + Len(m.value) - Len(Tag(type))])

\* lines 177-185: the matches are those of `result`; position = match.start()
\* and offset is left alone
AmountLoop(matches, st) ==
    [placeholders |-> st.placeholders \o
                      [k \in DOMAIN matches |->
                          Placeholder("AMOUNT", matches[k].value, matches[k].start)],
     offset |-> st.offset]

\* line 210: ph.position <= match.start() <= ph.position + len(ph.value)
AlreadyCaptured(m, phs) ==
    \E i \in DOMAIN phs :
        /\ phs[i].position <= m.start
        /\ m.start <= phs[i].position + Len(phs[i].value)

\* lines 206-233
RECURSIVE NumberLoop(_, _)
NumberLoop(matches, st) ==
    IF matches = <<>> THEN st
    ELSE LET m == Head(matches)
         IN  IF AlreadyCaptured(m, st.placeholders) \/ m.counted
             THEN NumberLoop(Tail(matches), st)
             ELSE NumberLoop(Tail(matches),
                      [placeholders |-> Append(st.placeholders,
                                           Placeholder("NUMBER", m.value, m.start - st.offset)),
                       offset |-> st.offset + Len(m.value) - Len(Tag("NUMBER"))])

EmailLoop(text, st) == ReplaceLoop("EMAIL", WordMatches(text, EmailWords), st)

DateLoop(text, st) == ReplaceLoop("DATE", WordMatches(text, DateWords), st)

\* the placeholders list _extract_placeholders(text, []) returns
extract_placeholders(text) ==
    LET s0 == [placeholders |-> <<>>, offset |-> 0]
        s1 == EmailLoop(text, s0)
        s2 == AmountLoop(WordMatches(AfterEmails(text), AmountWords), s1)
        s3 == DateLoop(text, s2)
        s4 == NumberLoop(NumberMatches(text, 1), s3)
    IN  s4.placeholders

\* _extract_placeholders, one step per loop
LoopState == [placeholders |-> placeholders, offset |-> offset]

LoopStep(st, next) ==
    /\ placeholders' = st.placeholders
    /\ offset' = st.offset
    /\ ppc' = next
    /\ UNCHANGED <<ptext, notPh>>

\* lines 159-169
EmailPattern ==
    /\ ppc = "email"
    /\ LoopStep(EmailLoop(ptext, LoopState), "amount")

\* lines 171-185
AmountPattern ==
    /\ ppc = "amount"
    /\ LoopStep(AmountLoop(WordMatches(AfterEmails(ptext), AmountWords), LoopState), "date")

\* lines 187-202
DatePattern ==
    /\ ppc = "date"
    /\ LoopStep(DateLoop(ptext, LoopState), "number")

\* lines 204-235
NumberPattern ==
    /\ ppc = "number"
    /\ LoopStep(NumberLoop(NumberMatches(ptext, 1), LoopState), "done")

MaxPlaceholderWords == 4    \* longest text handed to _extract_placeholders

PlaceholderVocabulary ==
    {"to", "times"} \cup EmailWords \cup AmountWords \cup DateWords \cup NumberWords

\* the worked example of the specification
ExampleText == <<"Transfer", "$100", "to", "user@example.com", "on", "2024-01-15">>

PlaceholderTexts ==
    UNION {[1 .. n -> PlaceholderVocabulary] : n \in 1 .. MaxPlaceholderWords}
    \cup {ExampleText}

InitPlaceholders ==
    /\ cfg = load_config(2, DefaultFallbacks)
    /\ MatchIdle /\ FallbackIdle /\ IoIdle /\ NormalizerIdle /\ WeakIdle /\ ClusteringIdle /\ ChunkerIdle
    /\ ptext \in PlaceholderTexts
    /\ ppc = "email" /\ placeholders = <<>> /\ offset = 0

NextPlaceholders ==
    \/ EmailPattern
    \/ AmountPattern
    \/ DatePattern
    \/ NumberPattern

SpecPlaceholders == InitPlaceholders /\ [][NextPlaceholders]_vars

----------------------------------------------------------------------------
(* Normalizer.normalize, on texts of plain words and at most one amount    *)

\* str.lower() and str.upper() on the words of the modelled texts
Lower(w) ==
    CASE w = "Click"    -> "click"
      [] w = "ENTER"    -> "enter"
      [] w = "<AMOUNT>" -> "<amount>"
      [] OTHER          -> w

Upper(w) ==
    CASE Lower(w) = "enter" -> "ENTER"
      [] OTHER              -> w

\* lines 281-283
action_verbs ==
    {"click", "select", "navigate", "verify", "check", "enter", "input",
     "submit", "press", "open", "close", "create", "delete", "update",
     "grab", "mark", "strike", "scan", "switch", "add", "remove"}

\* line 298
skip_words == {"the", "a", "an", "to", "on", "in", "at", "for", "with"}

\* lines 49-55: action_canon_map.get(action_verb, action_verb)
action_canon_map(v) ==
    CASE v \in {"press", "click", "hit", "tap", "confirm"}  -> "press"
      [] v \in {"enter", "type", "input", "key"}            -> "enter"
      [] v \in {"select", "choose", "pick"}                 -> "select"
      [] v \in {"navigate", "go", "open"}                   -> "navigate"
      [] v \in {"verify", "check", "assert"}                -> "verify"
      [] OTHER                                              -> v

canonicalize_action(action_verb) ==
    IF action_verb = None THEN None ELSE Some(action_canon_map(action_verb[1]))

\* words[i].startswith('<')
IsTag(w) == w \in {"<amount>", "<AMOUNT>"}

\* lines 277-304, the branch without spaCy (use_lemmatization is False)
extract_action_and_object(words) ==
    LET verbs == {i \in DOMAIN words : words[i] \in action_verbs}
    IN  IF verbs = {}
        THEN [action_verb |-> None, primary_object |-> None]
        ELSE LET at   == CHOOSE i \in verbs : \A j \in verbs : i <= j
                 objs == {i \in (at + 1) .. Len(words) :
                             words[i] \notin skip_words /\ ~IsTag(words[i])}
             IN  [action_verb |-> Some(words[at]),
                  primary_object |->
                      IF objs = {} THEN None
                      ELSE Some(words[CHOOSE i \in objs : \A j \in objs : i <= j])]

\* lines 320-350: of the domain tokens only ENTER occurs in the modelled texts
extract_domain_terms(words) ==
    IF \E i \in DOMAIN words : Lower(words[i]) = "enter" THEN <<"ENTER">> ELSE <<>>

\* lines 352-355
restore_token_case(words, token) ==
    [i \in DOMAIN words |-> IF Lower(words[i]) = Lower(token) THEN Upper(token)
                            ELSE words[i]]

RECURSIVE RestoreAll(_, _)
RestoreAll(words, terms) ==
    IF terms = <<>> THEN words
    ELSE RestoreAll(restore_token_case(words, Head(terms)), Tail(terms))

\* the text after _extract_placeholders: a single amount and nothing else to
\* replace is replaced where it stands
Tagged(text) ==
    [i \in DOMAIN text |-> IF text[i] \in AmountWords THEN Tag("AMOUNT") ELSE text[i]]

\* lines 237-255: a bullet becomes a space, spaces are collapsed
clean_text(words) == SelectSeq(words, LAMBDA w : w # "*")

NormalizedResult(text, phs, verb, object, canonical, terms) ==
    [normalized_text |-> text, placeholders |-> phs, action_verb |-> verb,
     primary_object |-> object, action_canonical |-> canonical,
     domain_terms |-> terms]

\* lines 64-121
normalize(text) ==
    IF text = <<>>
    THEN NormalizedResult(<<>>, <<>>, None, None, None, <<>>)
    ELSE LET phs       == extract_placeholders(text)
             tagged    == Tagged(text)
             terms     == extract_domain_terms(tagged)
             lowered   == [i \in DOMAIN tagged |-> Lower(tagged[i])]
             cleaned   == clean_text(lowered)
             ao        == extract_action_and_object(cleaned)
             canonical == canonicalize_action(ao.action_verb)
             injected  == IF canonical # None /\ canonical[1] \notin Range(cleaned)
                          THEN <<canonical[1]>> \o cleaned
                          ELSE cleaned
         IN  NormalizedResult(RestoreAll(injected, terms), phs, ao.action_verb,
                              ao.primary_object, canonical, terms)

NormalizerVocabulary == {"Click", "press", "enter", "the", "button", "*"} \cup AmountWords

\* texts of at most MaxWords words with at most one amount
NormalizerTexts ==
    UNION { {t \in [1 .. n -> NormalizerVocabulary] :
                Cardinality({i \in 1 .. n : t[i] \in AmountWords}) <= 1}
            : n \in 0 .. MaxWords }

\* a caller normalizes a text
NormalizeText ==
    /\ npc = "call"
    /\ nres' = Some(normalize(ntext))
    /\ npc' = "again"
    /\ UNCHANGED <<ntext, nagain, notNz>>

\* and then normalizes the normalized_text it got
NormalizeAgain ==
    /\ npc = "again"
    /\ nagain' = Some(normalize(nres[1].normalized_text))
    /\ npc' = "done"
    /\ UNCHANGED <<ntext, nres, notNz>>

InitNormalizer ==
    /\ cfg = load_config(2, DefaultFallbacks)
    /\ MatchIdle /\ FallbackIdle /\ IoIdle /\ ExtractIdle /\ WeakIdle /\ ClusteringIdle /\ ChunkerIdle
    /\ ntext \in NormalizerTexts
    /\ npc = "call" /\ nres = None /\ nagain = None

NextNormalizer ==
    \/ NormalizeText
    \/ NormalizeAgain

SpecNormalizer == InitNormalizer /\ [][NextNormalizer]_vars

----------------------------------------------------------------------------
(* Chunker (src/src/chunker.py) *)

MaxChunkWords == 5    \* longest text handed to chunk, in words and delimiters

\* Chunker(min_tokens, max_tokens, use_dependency_parsing); nlp is "none"
\* when dependency parsing is off or the spaCy model is missing, and else
\* names how the parser attaches a conjunction that stands before a verb: as
\* a left child of that verb ("cc_left") or elsewhere ("cc_apart")
ChunkerObjects ==
    [min_tokens : {3}, max_tokens : {20}, nlp : {"none", "cc_left", "cc_apart"}]
    \cup [min_tokens : {1, 2}, max_tokens : {3}, nlp : {"none", "cc_left", "cc_apart"}]

Delimiters == {";"}
Conjunctions == {"and", "or", "then"}

\* lines 165-170
chunker_verbs ==
    {"click", "select", "navigate", "verify", "check", "enter", "input",
     "submit", "press", "open", "close", "create", "delete", "update",
     "grab", "mark", "strike", "scan", "switch", "add", "remove", "void",
     "accept", "locate", "use", "finish", "payout", "log", "login"}

\* the words spaCy tags VERB
SpacyVerbs == {"click"}

\* cut a list of words before every position of `cuts`, dropping the words
\* at the positions of `drop`, and drop empty pieces
RECURSIVE Pieces(_, _, _, _, _)
Pieces(words, i, cuts, drop, current) ==
    IF i > Len(words)
    THEN IF current = <<>> THEN <<>> ELSE <<current>>
    ELSE LET flush == IF i \in cuts /\ current # <<>> THEN <<current>> ELSE <<>>
             start == IF i \in cuts THEN <<>> ELSE current
             next  == IF i \in drop THEN start ELSE Append(start, words[i])
         IN  flush \o Pieces(words, i + 1, cuts, drop, next)

\* lines 96-111, for texts whose only delimiter is the semicolon
split_on_delimiters(text) ==
    LET at == {i \in DOMAIN text : text[i] \in Delimiters}
    IN  Pieces(text, 1, at, at, <<>>)

\* lines 113-153: with more than one verb, a new chunk starts at every verb
\* after the first that has a conjunction among its left children
split_by_dependency(nlp, words) ==
    LET verbs == {i \in DOMAIN words : words[i] \in SpacyVerbs}
        first == CHOOSE i \in verbs : \A j \in verbs : i <= j
        cuts  == {i \in verbs : /\ i > first
                               /\ nlp = "cc_left"
                               /\ words[i - 1] \in Conjunctions}
    IN  IF Cardinality(verbs) <= 1 THEN <<words>>
        ELSE Pieces(words, 1, cuts, {}, <<>>)

\* lines 155-181
filter_noise(min_tokens, segments) ==
    SelectSeq(segments, LAMBDA seg :
        /\ Len(seg) >= min_tokens
        /\ \E i \in DOMAIN seg : Lower(seg[i]) \in chunker_verbs)

\* re.split(r'\s+(?:and|or|then)\s+', text): the positions of the
\* conjunctions the pattern matches, left to right; a match needs a word on
\* either side and eats the blank after it
RECURSIVE ConjunctionMatches(_, _, _)
ConjunctionMatches(words, i, blank) ==
    IF i >= Len(words) THEN {}
    ELSE IF i > 1 /\ blank /\ words[i] \in Conjunctions
         THEN {i} \cup ConjunctionMatches(words, i + 1, FALSE)
         ELSE ConjunctionMatches(words, i + 1, TRUE)

\* lines 183-193
split_long_chunk(nlp, words) ==
    IF nlp # "none" THEN split_by_dependency(nlp, words)
    ELSE LET at == ConjunctionMatches(words, 1, TRUE)
         IN  Pieces(words, 1, at, at, <<>>)

RECURSIVE Flatten(_)
Flatten(lists) == IF lists = <<>> THEN <<>> ELSE Head(lists) \o Flatten(Tail(lists))

\* lines 42-54
Segments(c, text) ==
    LET initial_chunks == split_on_delimiters(text)
        split == IF c.nlp # "none"
                 THEN Flatten([k \in DOMAIN initial_chunks |->
                                  split_by_dependency(c.nlp, initial_chunks[k])])
                 ELSE initial_chunks
    IN  filter_noise(c.min_tokens, split)

Chunk(chunk_id, text, normalized, chunk_index) ==
    [chunk_id |-> chunk_id, original_chunk |-> text,
     normalized_chunk |-> normalized.normalized_text, chunk_index |-> chunk_index,
     action_verb |-> normalized.action_verb,
     primary_object |-> normalized.primary_object,
     placeholders |-> normalized.placeholders]

\* lines 66-79: every sub-chunk is appended with chunk_index = len(result)
RECURSIVE AppendSubChunks(_, _, _, _)
AppendSubChunks(res, sub_chunks, at, sub_idx) ==
    IF sub_idx >= Len(sub_chunks) THEN res
    ELSE LET text == sub_chunks[sub_idx + 1]
         IN  AppendSubChunks(
                 Append(res, Chunk(<<at, sub_idx>>, text, normalize(text), Len(res))),
                 sub_chunks, at, sub_idx + 1)

\* lines 37-54: chunk(text, parent_testcase_id, normalizer) up to the loop
SplitAndFilter ==
    /\ cpc = "split"
    /\ IF ctext = <<>>
       THEN cpc' = "done" /\ UNCHANGED chunks
       ELSE cpc' = "loop" /\ chunks' = Segments(chunker[1], ctext)
    /\ UNCHANGED <<chunker, ctext, idx, chunk_result, notCh>>

\* lines 58-92: one round of `for idx, chunk_text in enumerate(chunks)`
MakeChunk ==
    /\ cpc = "loop" /\ idx < Len(chunks)
    /\ LET chunk_text == chunks[idx + 1]
           normalized == normalize(chunk_text)
       IN  IF Len(normalized.normalized_text) > chunker[1].max_tokens
           THEN chunk_result' =
                    AppendSubChunks(chunk_result,
                        split_long_chunk(chunker[1].nlp, chunk_text), idx, 0)
           ELSE chunk_result' =
                    Append(chunk_result, Chunk(<<idx>>, chunk_text, normalized, idx))
    /\ idx' = idx + 1
    /\ UNCHANGED <<cpc, chunker, ctext, chunks, notCh>>

\* line 94
ReturnChunks ==
    /\ cpc = "loop" /\ idx = Len(chunks)
    /\ cpc' = "done"
    /\ UNCHANGED <<chunker, ctext, chunks, idx, chunk_result, notCh>>

ChunkerVocabulary == {"click", "button", "and"} \cup Delimiters

ChunkerTexts == UNION {[1 .. n -> ChunkerVocabulary] : n \in 0 .. MaxChunkWords}

InitChunker ==
    /\ cfg = load_config(2, DefaultFallbacks)
    /\ MatchIdle /\ FallbackIdle /\ IoIdle /\ NormalizerIdle /\ ExtractIdle /\ WeakIdle
    /\ ClusteringIdle
    /\ chunker \in {Some(c) : c \in ChunkerObjects}
    /\ ctext \in ChunkerTexts
    /\ cpc = "split" /\ chunks = <<>> /\ idx = 0 /\ chunk_result = <<>>

NextChunker ==
    \/ SplitAndFilter
    \/ MakeChunk
    \/ ReturnChunks

SpecChunker == InitChunker /\ [][NextChunker]_vars

----------------------------------------------------------------------------
(* Clustering (src/src/clustering.py) *)

MaxEmbeddings == 5   \* most embeddings handed to cluster
MaxMembers == 4      \* most chunks handed to select_canonical_template

\* Clustering(method, threshold, min_cluster_size); 3 is the default size
ClusteringObjects ==
    [method : {"agglomerative", "kmeans"}, min_cluster_size : {2, 3}]

\* AgglomerativeClustering.fit_predict: one label per embedding, the labels
\* being 0 .. n_clusters-1
LabelVectors(n) ==
    {l \in [0 .. n - 1 -> 0 .. n - 1] :
        \A c \in 0 .. n - 1 :
            (\E i \in 0 .. n - 1 : l[i] = c) =>
                \A b \in 0 .. c : \E i \in 0 .. n - 1 : l[i] = b}

\* the elements of a set of integers in increasing order
RECURSIVE Ascending(_)
Ascending(S) ==
    IF S = {} THEN <<>>
    ELSE LET m == CHOOSE x \in S : \A y \in S : x <= y
         IN  <<m>> \o Ascending(S \ {m})

\* lines 53-57: clusters[label].append(idx) for idx in order
GroupByLabel(labels) ==
    [c \in {labels[i] : i \in DOMAIN labels} |->
        Ascending({i \in DOMAIN labels : labels[i] = c})]

\* mutant: every cluster is returned
KeepAllClusters(clusters, min_cluster_size) == clusters

\* lines 60-63
FilterClusters(clusters, min_cluster_size) ==
    [c \in {d \in DOMAIN clusters : Len(clusters[d]) >= min_cluster_size} |->
        clusters[c]]

\* a caller invokes cluster(embeddings, chunks) with n embeddings: fewer than
\* 2 give {}, an unknown method raises ValueError, else fit_predict labels
FitPredict ==
    /\ clpc = "cluster"
    /\ \E n \in 0 .. MaxEmbeddings :
          IF n < 2
          THEN /\ filtered_clusters' = Some(<<>>)
               /\ clpc' = "done"
               /\ UNCHANGED cluster_labels
          ELSE IF clustering[1].method # "agglomerative"
          THEN /\ clpc' = "raised"
               /\ UNCHANGED <<cluster_labels, filtered_clusters>>
          ELSE /\ \E l \in LabelVectors(n) : cluster_labels' = l
               /\ clpc' = "filter"
               /\ UNCHANGED filtered_clusters
    /\ UNCHANGED <<clustering, cluster_chunks, canonical_template, notCl>>

\* lines 52-65
GroupAndFilter ==
    /\ clpc = "filter"
    /\ filtered_clusters' =
           Some(FilterClusters(GroupByLabel(cluster_labels),
                               clustering[1].min_cluster_size))
    /\ clpc' = "done"
    /\ UNCHANGED <<clustering, cluster_labels, cluster_chunks, canonical_template, notCl>>

\* chunk dicts as built from a Chunk: both texts present
NormalizedChunks == {"press button", "enter amount"}
OriginalChunks == {"Click button", "Hit the button", "Type amount"}

ChunkLists ==
    UNION {[1 .. n -> [normalized_chunk : NormalizedChunks,
                       original_chunk : OriginalChunks]] : n \in 0 .. MaxMembers}

\* Counter(texts)[t]
Count(texts, t) == Cardinality({i \in DOMAIN texts : texts[i] = t})

FirstIndex(texts, t) ==
    CHOOSE i \in DOMAIN texts : texts[i] = t /\ \A j \in 1 .. (i - 1) : texts[j] # t

\* mutant: among equally frequent texts the one inserted last wins
most_common_last(texts) ==
    texts[CHOOSE i \in DOMAIN texts :
        \A j \in DOMAIN texts :
            \/ Count(texts, texts[j]) < Count(texts, texts[i])
            \/ /\ Count(texts, texts[j]) = Count(texts, texts[i])
               /\ FirstIndex(texts, texts[j]) <= FirstIndex(texts, texts[i])]

\* Counter(texts).most_common(1)[0][0]: the first inserted of the most
\* frequent texts
most_common(texts) ==
    texts[CHOOSE i \in DOMAIN texts :
        \A j \in DOMAIN texts :
            \/ Count(texts, texts[j]) < Count(texts, texts[i])
            \/ /\ Count(texts, texts[j]) = Count(texts, texts[i])
               /\ FirstIndex(texts, texts[i]) <= FirstIndex(texts, texts[j])]

\* lines 67-93
select_canonical_template(members) ==
    IF members = <<>> THEN ""
    ELSE LET normalized_texts == [i \in DOMAIN members |-> members[i].normalized_chunk]
             winner           == most_common(normalized_texts)
             hits             == {i \in DOMAIN members : members[i].normalized_chunk = winner}
         IN  IF hits = {} THEN winner
             ELSE members[CHOOSE i \in hits : \A j \in hits : i <= j].original_chunk

SelectCanonicalTemplate ==
    /\ clpc = "select"
    /\ canonical_template' = Some(select_canonical_template(cluster_chunks))
    /\ clpc' = "done"
    /\ UNCHANGED <<clustering, cluster_labels, filtered_clusters, cluster_chunks, notCl>>

\* a Clustering object and one call of one of its two methods
InitClustering ==
    /\ cfg = load_config(2, DefaultFallbacks)
    /\ MatchIdle /\ FallbackIdle /\ IoIdle /\ NormalizerIdle /\ ExtractIdle /\ WeakIdle
    /\ ChunkerIdle
    /\ clustering \in {Some(c) : c \in ClusteringObjects}
    /\ cluster_labels = <<>> /\ filtered_clusters = None /\ canonical_template = None
    /\ \/ clpc = "cluster" /\ cluster_chunks = <<>>
       \/ clpc = "select" /\ cluster_chunks \in ChunkLists

NextClustering ==
    \/ FitPredict
    \/ GroupAndFilter
    \/ SelectCanonicalTemplate

SpecClustering == InitClustering /\ [][NextClustering]_vars

----------------------------------------------------------------------------
(* Embedder (src/src/embedder.py).  The cache key is the md5 hex digest of   *)
(* the text, held here as the pair <<"md5", text>>; model.encode is          *)
(* deterministic and gives the vector <<"vec", text>>.  A cache file is a    *)
(* record: whether it exists and the pickles its bytes hold, <<>> for the    *)
(* file open(..., 'wb') has just created or truncated.                       *)

MaxCallers == 2      \* embed calls running at the same time
MaxEmbedCalls == 3   \* embed / embed_batch calls made one after the other
MaxBatch == 2        \* longest list handed to embed_batch

Callers == 1 .. MaxCallers
EmbedTexts == {"a", "b"}

get_cache_key(text) == <<"md5", text>>

CacheKeys == {get_cache_key(t) : t \in EmbedTexts}

\* self.model.encode(text, convert_to_numpy=True)
Encode(text) == <<"vec", text>>

NoFile == [exists |-> FALSE, bytes |-> <<>>]

\* open(cache_file, 'wb'): the file exists and is empty
Truncated == [exists |-> TRUE, bytes |-> <<>>]

\* pickle.dump(embedding, f) and the close of the file
Dumped(e) == [exists |-> TRUE, bytes |-> <<e>>]

\* pickle.load(f): EOFError on a file without a complete pickle
pickle_load(file) ==
    IF file.bytes = <<>>
    THEN [raised |-> Some("EOFError: Ran out of input"), value |-> None]
    ELSE [raised |-> None, value |-> Some(file.bytes[1])]

EmbedReturn(v) == [raised |-> None, value |-> Some(v)]

EmbedRaise(e) == [raised |-> Some(e), value |-> None]

\* lines 23-25: cache_key in self._cache
CheckMemory(c) ==
    /\ epc[c] = "check_memory"
    /\ LET hit == ecache[eobj[c]][get_cache_key(etext[c])]
       IN  IF hit # None
           THEN /\ eret' = [eret EXCEPT ![c] = Some(EmbedReturn(hit[1]))]
                /\ epc' = [epc EXCEPT ![c] = "returned"]
           ELSE /\ epc' = [epc EXCEPT ![c] = "check_disk"]
                /\ UNCHANGED eret
    /\ UNCHANGED <<eobj, etext, embedding, ecache, edisk, encoded, nEmbed,
                   batch_texts, uncached_indices, embeddings, notEm>>

\* lines 28-29: cache_file.exists()
CheckDisk(c) ==
    /\ epc[c] = "check_disk"
    /\ epc' = [epc EXCEPT ![c] =
                  IF edisk[get_cache_key(etext[c])].exists THEN "load" ELSE "encode"]
    /\ UNCHANGED <<eobj, etext, embedding, eret, ecache, edisk, encoded, nEmbed,
                   batch_texts, uncached_indices, embeddings, notEm>>

\* lines 30-33: open, pickle.load, fill the memory cache, return
LoadFromDisk(c) ==
    /\ epc[c] = "load"
    /\ LET k      == get_cache_key(etext[c])
           loaded == pickle_load(edisk[k])
       IN  IF loaded.raised # None
           THEN /\ eret' = [eret EXCEPT ![c] = Some(EmbedRaise(loaded.raised[1]))]
                /\ epc' = [epc EXCEPT ![c] = "raised"]
                /\ UNCHANGED <<embedding, ecache>>
           ELSE /\ embedding' = [embedding EXCEPT ![c] = loaded.value]
                /\ ecache' = [ecache EXCEPT ![eobj[c]][k] = loaded.value]
                /\ eret' = [eret EXCEPT ![c] = Some(EmbedReturn(loaded.value[1]))]
                /\ epc' = [epc EXCEPT ![c] = "returned"]
    /\ UNCHANGED <<eobj, etext, edisk, encoded, nEmbed,
                   batch_texts, uncached_indices, embeddings, notEm>>

\* line 36: embedding = self.model.encode(text)
EncodeText(c) ==
    /\ epc[c] = "encode"
    /\ embedding' = [embedding EXCEPT ![c] = Some(Encode(etext[c]))]
    /\ encoded' = [encoded EXCEPT ![etext[c]] = @ + 1]
    /\ epc' = [epc EXCEPT ![c] = "store"]
    /\ UNCHANGED <<eobj, etext, eret, ecache, edisk, nEmbed,
                   batch_texts, uncached_indices, embeddings, notEm>>

\* line 39: self._cache[cache_key] = embedding
StoreMemory(c) ==
    /\ epc[c] = "store"
    /\ ecache' = [ecache EXCEPT ![eobj[c]][get_cache_key(etext[c])] = embedding[c]]
    /\ epc' = [epc EXCEPT ![c] = "open_write"]
    /\ UNCHANGED <<eobj, etext, embedding, eret, edisk, encoded, nEmbed,
                   batch_texts, uncached_indices, embeddings, notEm>>

\* line 40: open(cache_file, 'wb')
OpenCacheFile(c) ==
    /\ epc[c] = "open_write"
    /\ edisk' = [edisk EXCEPT ![get_cache_key(etext[c])] = Truncated]
    /\ epc' = [epc EXCEPT ![c] = "dump"]
    /\ UNCHANGED <<eobj, etext, embedding, eret, ecache, encoded, nEmbed,
                   batch_texts, uncached_indices, embeddings, notEm>>

\* lines 41-43: pickle.dump, the close of the file, return embedding
DumpAndReturn(c) ==
    /\ epc[c] = "dump"
    /\ edisk' = [edisk EXCEPT ![get_cache_key(etext[c])] = Dumped(embedding[c][1])]
    /\ eret' = [eret EXCEPT ![c] = Some(EmbedReturn(embedding[c][1]))]
    /\ epc' = [epc EXCEPT ![c] = "returned"]
    /\ UNCHANGED <<eobj, etext, embedding, ecache, encoded, nEmbed,
                   batch_texts, uncached_indices, embeddings, notEm>>

\* the cache directory as an earlier run can have left it
CacheDirectories == [CacheKeys -> {NoFile} \cup {Dumped(Encode(t)) : t \in EmbedTexts}]

EmptyMemory == [k \in CacheKeys |-> None]

\* every caller has just entered embed(text) with the same text; callers
\* share one Embedder (threads) or have one each (processes), and all
\* Embedders share the cache directory
InitEmbedRace ==
    /\ cfg = load_config(2, DefaultFallbacks)
    /\ MatchIdle /\ FallbackIdle /\ BatchIdle
    /\ NormalizerIdle /\ ExtractIdle /\ WeakIdle /\ ClusteringIdle /\ ChunkerIdle
    /\ eobj \in [Callers -> Callers]
    /\ \E t \in EmbedTexts : etext = [c \in Callers |-> t]
    /\ epc = [c \in Callers |-> "check_memory"]
    /\ embedding = [c \in Callers |-> None]
    /\ eret = [c \in Callers |-> None]
    /\ ecache = [o \in Callers |-> EmptyMemory]
    /\ edisk \in {d \in CacheDirectories :
                     \A t \in EmbedTexts : d[get_cache_key(t)] \in {NoFile, Dumped(Encode(t))}}
    /\ encoded = [t \in EmbedTexts |-> 0]
    /\ nEmbed = MaxCallers
    /\ batch_texts = <<>> /\ uncached_indices = <<>> /\ embeddings = <<>>

NextEmbedRace ==
    \/ \E c \in Callers : CheckMemory(c)
    \/ \E c \in Callers : CheckDisk(c)
    \/ \E c \in Callers : LoadFromDisk(c)
    \/ \E c \in Callers : EncodeText(c)
    \/ \E c \in Callers : StoreMemory(c)
    \/ \E c \in Callers : OpenCacheFile(c)
    \/ \E c \in Callers : DumpAndReturn(c)

SpecEmbedRace == InitEmbedRace /\ [][NextEmbedRace]_vars

(* One Embedder used by one caller, call after call *)

Between(c) == epc[c] \in {"idle", "returned", "raised"}

\* the caller invokes embed(text)
CallEmbed(c) ==
    /\ Between(c)
    /\ nEmbed < MaxEmbedCalls
    /\ nEmbed' = nEmbed + 1
    /\ \E t \in EmbedTexts : etext' = [etext EXCEPT ![c] = t]
    /\ epc' = [epc EXCEPT ![c] = "check_memory"]
    /\ embedding' = [embedding EXCEPT ![c] = None]
    /\ eret' = [eret EXCEPT ![c] = None]
    /\ batch_texts' = <<>> /\ uncached_indices' = <<>> /\ embeddings' = <<>>
    /\ UNCHANGED <<eobj, ecache, edisk, encoded, notEm>>

BatchLists == UNION {[1 .. n -> EmbedTexts] : n \in 0 .. MaxBatch}

\* the caller invokes embed_batch(texts)
CallEmbedBatch(c) ==
    /\ Between(c)
    /\ nEmbed < MaxEmbedCalls
    /\ nEmbed' = nEmbed + 1
    /\ \E ts \in BatchLists :
          /\ batch_texts' = ts
          /\ embeddings' = [i \in DOMAIN ts |-> None]
    /\ uncached_indices' = <<>>
    /\ etext' = [etext EXCEPT ![c] = ""]
    /\ epc' = [epc EXCEPT ![c] = "scan"]
    /\ embedding' = [embedding EXCEPT ![c] = None]
    /\ eret' = [eret EXCEPT ![c] = None]
    /\ UNCHANGED <<eobj, ecache, edisk, encoded, notEm>>

\* lines 52-65 from position i on: st holds the memory cache, the list
\* returned, the positions left to encode and the exception raised, if any
RECURSIVE ScanFrom(_, _, _, _)
ScanFrom(ts, i, disk, st) ==
    IF i > Len(ts) \/ st.raised # None THEN st
    ELSE LET k == get_cache_key(ts[i])
         IN  IF st.cache[k] # None
             THEN ScanFrom(ts, i + 1, disk,
                      [st EXCEPT !.embeddings[i] = st.cache[k]])
             ELSE IF disk[k].exists
             THEN LET loaded == pickle_load(disk[k])
                  IN  IF loaded.raised # None
                      THEN [st EXCEPT !.raised = loaded.raised]
                      ELSE ScanFrom(ts, i + 1, disk,
                               [st EXCEPT !.cache[k] = loaded.value,
                                          !.embeddings[i] = loaded.value])
             ELSE ScanFrom(ts, i + 1, disk,
                      [st EXCEPT !.uncached_indices = Append(@, i)])

\* lines 47-65: separate cached and uncached texts
ScanBatch(c) ==
    /\ epc[c] = "scan"
    /\ LET st == ScanFrom(batch_texts, 1, edisk,
                     [cache |-> ecache[eobj[c]], embeddings |-> embeddings,
                      uncached_indices |-> <<>>, raised |-> None])
       IN  /\ ecache' = [ecache EXCEPT ![eobj[c]] = st.cache]
           /\ embeddings' = st.embeddings
           /\ uncached_indices' = st.uncached_indices
           /\ IF st.raised # None
              THEN /\ eret' = [eret EXCEPT ![c] = Some(EmbedRaise(st.raised[1]))]
                   /\ epc' = [epc EXCEPT ![c] = "raised"]
              ELSE /\ epc' = [epc EXCEPT ![c] = "encode_batch"]
                   /\ UNCHANGED eret
    /\ UNCHANGED <<eobj, etext, embedding, edisk, encoded, nEmbed, batch_texts, notEm>>

\* how many of the positions idxs of ts hold the text t
Occurrences(ts, idxs, t) == Cardinality({j \in DOMAIN idxs : ts[idxs[j]] = t})

\* lines 73-78: model.encode(batch) encodes every element of the batch; the
\* batch is the whole uncached list (batch_size = 32)
EncodedByBatch(ts, idxs, t) == Occurrences(ts, idxs, t)

\* lines 68-94: encode the uncached texts, cache them in memory and on disk,
\* return the list
EncodeBatch(c) ==
    /\ epc[c] = "encode_batch"
    /\ LET uncached == {batch_texts[uncached_indices[j]] : j \in DOMAIN uncached_indices}
       IN  /\ encoded' = [t \in EmbedTexts |->
                             encoded[t] + EncodedByBatch(batch_texts, uncached_indices, t)]
           /\ ecache' = [ecache EXCEPT ![eobj[c]] =
                            [k \in CacheKeys |->
                                IF \E t \in uncached : k = get_cache_key(t)
                                THEN Some(Encode(CHOOSE t \in uncached : k = get_cache_key(t)))
                                ELSE @[k]]]
           /\ edisk' = [k \in CacheKeys |->
                           IF \E t \in uncached : k = get_cache_key(t)
                           THEN Dumped(Encode(CHOOSE t \in uncached : k = get_cache_key(t)))
                           ELSE edisk[k]]
           /\ embeddings' = [i \in DOMAIN embeddings |->
                                IF \E j \in DOMAIN uncached_indices : uncached_indices[j] = i
                                THEN Some(Encode(batch_texts[i]))
                                ELSE embeddings[i]]
    /\ eret' = [eret EXCEPT ![c] = Some(EmbedReturn(embeddings'))]
    /\ epc' = [epc EXCEPT ![c] = "returned"]
    /\ UNCHANGED <<eobj, etext, embedding, nEmbed, batch_texts, uncached_indices, notEm>>

\* a new Embedder over a cache directory an earlier run can have filled
InitEmbedder ==
    /\ cfg = load_config(2, DefaultFallbacks)
    /\ MatchIdle /\ FallbackIdle /\ BatchIdle
    /\ NormalizerIdle /\ ExtractIdle /\ WeakIdle /\ ClusteringIdle /\ ChunkerIdle
    /\ eobj = <<1>>
    /\ etext = <<"">>
    /\ epc = <<"idle">>
    /\ embedding = <<None>>
    /\ eret = <<None>>
    /\ ecache = <<EmptyMemory>>
    /\ edisk \in {d \in CacheDirectories :
                     \A t \in EmbedTexts : d[get_cache_key(t)] \in {NoFile, Dumped(Encode(t))}}
    /\ encoded = [t \in EmbedTexts |-> 0]
    /\ nEmbed = 0
    /\ batch_texts = <<>> /\ uncached_indices = <<>> /\ embeddings = <<>>

NextEmbedder ==
    \/ CallEmbed(1)
    \/ CallEmbedBatch(1)
    \/ CheckMemory(1)
    \/ CheckDisk(1)
    \/ LoadFromDisk(1)
    \/ EncodeText(1)
    \/ StoreMemory(1)
    \/ OpenCacheFile(1)
    \/ DumpAndReturn(1)
    \/ ScanBatch(1)
    \/ EncodeBatch(1)

SpecEmbedder == InitEmbedder /\ [][NextEmbedder]_vars

----------------------------------------------------------------------------
(* BatchProcessor (src/src/batch_processor.py).  A row is what               *)
(* csv.DictReader or json.load gives: the three fields the loop reads, the   *)
(* chunk_index as the text of its cell.                                      *)

MaxRows == 2   \* rows of the input file

Row(parent, index, chunk) ==
    [parent_testcase_id |-> parent, chunk_index |-> index, original_chunk |-> chunk]

BatchRows ==
    { Row("TC1", "0", "click login"),
      Row("TC1", "one", "click login"),
      Row("TC1", "1", ""),
      Row("", "2", "click login") }

IntegerLiterals == {"0", "1", "2"}

\* int(row.get('chunk_index', 0)) of process_csv (line 81)
int(cell) ==
    IF cell \in IntegerLiterals
    THEN [raised |-> None,
          value |-> Some(CHOOSE n \in 0 .. 2 : ToString(n) = cell)]
    ELSE [raised |-> Some(<<"ValueError: invalid literal for int()", cell>>),
          value |-> None]

\* process_json passes item.get('chunk_index', 0) on as it is (line 152)
ChunkIndexOf(format, row) ==
    IF format = "csv" THEN int(row.chunk_index)
    ELSE [raised |-> None, value |-> Some(row.chunk_index)]

\* mutant: the test of the two required fields is missing
SkipsNothing(row) == FALSE

\* if not original_chunk or not parent_testcase_id: continue (lines 85, 156)
Skipped(row) == row.original_chunk = "" \/ row.parent_testcase_id = ""

\* `if limit and row_idx >= limit: break` (line 78); data[:limit] (line 148)
LoopEnds == row_idx >= Len(brows) \/ (blimit # 0 /\ row_idx >= blimit)

\* self.pipeline.match(...) as its caller sees it: one blocking call that
\* always returns a MatchResult (the try / except Exception of match) and
\* increments at most one usage counter.  The results are those of match
\* for a failing collaborator, for no candidates, and for a single candidate.
MatchOutcomes(config) ==
    {[result |-> ErrorResult(ExcText(op)), increment |-> None]
        : op \in {"normalize", "embed", "retrieve", "increment"}}
    \cup {[result |-> NoCandidatesResult, increment |-> None]}
    \cup {LET d    == ShouldSkipReranker(config, cs)
              topk == TopKFromVector(config, cs)
          IN  IF HasGoodMatch(config, d.skip, topk)
              THEN [result |-> FinalResult("REUSED_TEMPLATE", d.skip, d.reason,
                                           cs, <<>>, topk),
                    increment |-> Some(cs[1].id)]
              ELSE [result |-> FinalResult("NEW_BDD_REQUIRED", d.skip, d.reason,
                                           cs, <<>>, topk),
                    increment |-> None]
          : cs \in {c \in CandidateLists : Len(c) = 1}}

\* the loop head and the body up to the skip test (lines 76-86, 150-157)
ReadRow ==
    /\ bpc = "loop"
    /\ IF LoopEnds
       THEN /\ bpc' = "write"
            /\ UNCHANGED <<row_idx, braised>>
       ELSE LET row == brows[row_idx + 1]
            IN  IF ChunkIndexOf(bformat, row).raised # None
                THEN /\ braised' = ChunkIndexOf(bformat, row).raised
                     /\ bpc' = "raised"
                     /\ UNCHANGED row_idx
                ELSE IF Skipped(row)
                THEN /\ row_idx' = row_idx + 1
                     /\ UNCHANGED <<bpc, braised>>
                ELSE /\ bpc' = "match"
                     /\ UNCHANGED <<row_idx, braised>>
    /\ UNCHANGED <<cfg, matchVars, fbVars, nzVars, phVars, wkVars, clVars, chVars,
                   emVars, bformat, brows, blimit, results>>

\* result = self.pipeline.match(...); results.append(result)
\* (lines 88-101, 159-170)
MatchRow ==
    /\ bpc = "match"
    /\ \E o \in MatchOutcomes(cfg) :
          /\ results' = Append(results, [row |-> row_idx + 1, result |-> o.result])
          /\ usage' = IF o.increment = None THEN usage
                      ELSE [usage EXCEPT ![o.increment[1]] = @ + 1]
    /\ nCalls' = nCalls + 1
    /\ row_idx' = row_idx + 1
    /\ bpc' = "loop"
    /\ UNCHANGED <<cfg, pc, candidates, should_skip, skip_reason, reranked,
                   top_k_candidates, result, calls, fbVars, nzVars, phVars, wkVars,
                   clVars, chVars, emVars, bformat, brows, blimit, braised>>

\* self._write_results_csv(results, output_path); return results
WriteResults ==
    /\ bpc = "write"
    /\ bpc' = "returned"
    /\ UNCHANGED <<cfg, matchVars, fbVars, nzVars, phVars, wkVars, clVars, chVars,
                   emVars, bformat, brows, blimit, row_idx, results, braised>>

\* process_csv or process_json has opened its input and enters the loop
InitBatch ==
    /\ cfg = MakeConfig(Some(DynamicReranking(TRUE, 2, 90, 30, 3, 95, 85)), 2,
                        DefaultFallbacks)
    /\ MatchIdle /\ FallbackIdle
    /\ NormalizerIdle /\ ExtractIdle /\ WeakIdle /\ ClusteringIdle /\ ChunkerIdle
    /\ EmbedderIdle
    /\ bpc = "loop"
    /\ bformat \in {"csv", "json"}
    /\ brows \in UNION {[1 .. n -> BatchRows] : n \in 0 .. MaxRows}
    /\ blimit \in 0 .. MaxRows
    /\ row_idx = 0
    /\ results = <<>>
    /\ braised = None

NextBatch ==
    \/ ReadRow
    \/ MatchRow
    \/ WriteResults

SpecBatch == InitBatch /\ [][NextBatch]_vars

----------------------------------------------------------------------------
(* Properties of MatchingPipeline.match, checked under Spec *)

Called(op) == \E i \in DOMAIN calls : calls[i].op = op

SomeCallRaised == \E i \in DOMAIN calls : calls[i].exc # None

\* retrieval.retrieve returned, and returned the empty list
RetrievedEmpty ==
    /\ \E i \in DOMAIN calls : calls[i].op = "retrieve" /\ calls[i].exc = None
    /\ candidates = <<>>

\* the primary path ran the reranker, nothing raised, the best reranker
\* score is below thresholds.med_conf and the policy did not reuse
PrimaryLowConfidence ==
    /\ pc = "done" /\ result # None
    /\ candidates # <<>> /\ reranked # <<>>
    /\ ~SomeCallRaised
    /\ reranked[1].score < cfg.med_conf
    /\ result[1].final_action # "REUSED_TEMPLATE"

\* C1: whenever vector search returned candidates and the primary path ends
\* in low confidence, execute_fallbacks is invoked before match returns.
\* (The code never calls self.fallback_chain: TLC refutes this.)
C1_FallbackInvokedOnLowConfidence ==
    PrimaryLowConfidence => Called("execute_fallbacks")

\* the relevant threshold of one returned top-K entry: vector similarity
\* against 0.65 when reranking was skipped, reranker score against
\* min_score_threshold when the reranker ran
Clears(e) ==
    IF should_skip = Some(TRUE)
    THEN e.vector_similarity # None /\ e.vector_similarity[1] >= VectorThreshold
    ELSE e.reranker_score # None /\ e.reranker_score[1] >= cfg.min_score_threshold

\* C6: one-to-many threshold law: a returned MatchResult is REUSED_TEMPLATE
\* when at least one entry of its top_k_candidates clears the relevant
\* threshold, and NEW_BDD_REQUIRED when none does.
C6_OneToManyThreshold ==
    result # None =>
        LET r    == result[1]
            some == \E i \in DOMAIN r.top_k_candidates : Clears(r.top_k_candidates[i])
        IN  /\ some => r.final_action = "REUSED_TEMPLATE"
            /\ ~some => r.final_action = "NEW_BDD_REQUIRED"

\* C6 witness: REUSED_TEMPLATE returned although the last returned candidate
\* does not clear the threshold (some other one does)
C6_Witness ==
    /\ result # None
    /\ result[1].final_action = "REUSED_TEMPLATE"
    /\ Len(result[1].top_k_candidates) >= 2
    /\ ~Clears(result[1].top_k_candidates[Len(result[1].top_k_candidates)])

\* C7: when vector search returns an empty list, match has returned at once
\* with NEW_BDD_REQUIRED, the note "No candidates found in vector search",
\* no top-K and no selected candidate, and neither the rerank decision, the
\* reranker, the fallback chain nor the usage increment was invoked.
C7_NoCandidatesTerminates ==
    RetrievedEmpty =>
        /\ pc = "done" /\ result # None
        /\ result[1].final_action = "NEW_BDD_REQUIRED"
        /\ result[1].notes = <<"No candidates found in vector search">>
        /\ result[1].top_k_candidates = <<>>
        /\ result[1].selected_candidate_id = None
        /\ ~Called("should_skip") /\ ~Called("rerank")
        /\ ~Called("execute_fallbacks") /\ ~Called("increment")

\* C7 witness: a match call that got the empty list and has returned
C7_Witness == RetrievedEmpty /\ pc = "done" /\ nCalls = MaxCalls

\* C8: an exception raised by any collaborator at any step of match is not
\* propagated: match has returned NEW_BDD_REQUIRED with no top-K, no selected
\* candidate and notes carrying the exception text.
C8_ExceptionsBecomeResults ==
    \A i \in DOMAIN calls :
        calls[i].exc # None =>
            /\ pc = "done" /\ result # None
            /\ result[1].final_action = "NEW_BDD_REQUIRED"
            /\ result[1].top_k_candidates = <<>>
            /\ result[1].selected_candidate_id = None
            /\ result[1].notes = <<"Error: ", calls[i].exc[1]>>

\* C8 witness: the last collaborator of the path, the usage increment, raised
C8_Witness ==
    /\ \E i \in DOMAIN calls : calls[i].op = "increment" /\ calls[i].exc # None
    /\ pc = "done"

IncrementCalls == {i \in DOMAIN calls : calls[i].op = "increment"}

\* C9: a match call that returns REUSED_TEMPLATE has issued exactly one
\* usage-counter increment, and it is for the result's selected_candidate_id.
C9_ReuseIncrementsSelected ==
    (result # None /\ result[1].final_action = "REUSED_TEMPLATE") =>
        /\ Cardinality(IncrementCalls) = 1
        /\ \A i \in IncrementCalls :
              /\ calls[i].exc = None
              /\ result[1].selected_candidate_id = Some(calls[i].arg)

\* C9 witness: REUSED_TEMPLATE after reranking put another candidate first
\* than vector search did
C9_Witness ==
    /\ result # None /\ result[1].final_action = "REUSED_TEMPLATE"
    /\ should_skip = Some(FALSE)
    /\ result[1].selected_candidate_id # Some(candidates[1].id)
    /\ usage[result[1].selected_candidate_id[1]] >= 1

\* _should_skip_reranker has returned for the current candidates
Decided == should_skip # None /\ cfg.dynamic_reranking # None

\* C10 as stated: for any ranked list with at most target_top_k candidates,
\* _should_skip_reranker returns skip=True.
\* (Refuted when dynamic_reranking.enabled is false.)
C10_FewCandidatesAlwaysSkip ==
    (Decided /\ Len(candidates) <= cfg.dynamic_reranking[1].target_top_k)
        => should_skip = Some(TRUE)

\* C10 amended: with dynamic reranking enabled, a list of at most
\* target_top_k candidates yields skip=True, and so does every truncation of
\* any candidate list to at most target_top_k entries.
C10_FewCandidatesSkipWhenEnabled ==
    (Decided /\ cfg.dynamic_reranking[1].enabled) =>
        /\ Len(candidates) <= cfg.dynamic_reranking[1].target_top_k
              => should_skip = Some(TRUE)
        /\ \A n \in 0 .. cfg.dynamic_reranking[1].target_top_k :
              ShouldSkipReranker(cfg, Take(candidates, n)).skip

\* C10 witness: exactly target_top_k candidates of different scores, skipped
C10_Witness ==
    /\ Decided /\ cfg.dynamic_reranking[1].enabled
    /\ Len(candidates) = cfg.dynamic_reranking[1].target_top_k
    /\ Len(candidates) >= 2
    /\ candidates[1].sim > candidates[2].sim
    /\ should_skip = Some(TRUE)

\* the five skip conditions in the order they are claimed to be evaluated,
\* each with whether it holds of the current candidates and its reason
ClaimedConditions ==
    LET dr == cfg.dynamic_reranking[1]
        s  == Scores(candidates)
    IN  << <<Len(s) <= dr.target_top_k, "too few candidates">>,
           <<HighPercentileFloor(dr, s), "percentile floor">>,
           <<PercentileGap(dr, s), "percentile gap">>,
           <<ClusterSeparation(dr, s), "cluster separation">>,
           <<TopDominance(dr, s), "top dominance">> >>

\* the reason of the first claimed condition that holds
FirstHoldingReason ==
    LET i == CHOOSE i \in DOMAIN ClaimedConditions :
                 /\ ClaimedConditions[i][1]
                 /\ \A j \in 1 .. (i - 1) : ~ClaimedConditions[j][1]
    IN  ClaimedConditions[i][2]

NoConditionHolds == \A i \in DOMAIN ClaimedConditions : ~ClaimedConditions[i][1]

LongList == Decided /\ Len(candidates) > cfg.dynamic_reranking[1].target_top_k

\* C11 as stated: for a list with more than target_top_k candidates the
\* decision is skip=True with the reason of the first of the five conditions
\* that holds, and skip=False if and only if none of the five holds.
\* (Refuted when dynamic_reranking.enabled is false.)
C11_FirstConditionWins ==
    LongList =>
        /\ should_skip = Some(FALSE) <=> NoConditionHolds
        /\ should_skip = Some(TRUE) => skip_reason = FirstHoldingReason

\* C11 amended: the same, for a configuration whose dynamic_reranking.enabled
\* is true.
C11_FirstConditionWinsWhenEnabled ==
    (LongList /\ cfg.dynamic_reranking[1].enabled) =>
        /\ should_skip = Some(FALSE) <=> NoConditionHolds
        /\ should_skip = Some(TRUE) => skip_reason = FirstHoldingReason
        /\ should_skip = Some(FALSE) =>
               skip_reason = "Scores too ambiguous, using reranker"

\* C11 witness: both the percentile floor and the percentile gap hold of a
\* long list, and the decision reports the floor
C11_Witness ==
    /\ LongList /\ cfg.dynamic_reranking[1].enabled
    /\ ClaimedConditions[2][1] /\ ClaimedConditions[3][1]
    /\ should_skip = Some(TRUE) /\ skip_reason = "percentile floor"

----------------------------------------------------------------------------
(* Properties of FallbackChain.execute_fallbacks, checked under SpecFallback *)

\* the order the chain is claimed to try its stages in
ClaimedOrder ==
    <<"relaxed_search", "context_expansion", "lexical_search",
      "cluster_aggregation", "rule_synthesis", "llm_synthesis">>

ClaimedIndex(stage) == CHOOSE i \in DOMAIN ClaimedOrder : ClaimedOrder[i] = stage

\* C2: stages are attempted in the fixed order; as soon as one returns
\* success=True the chain returns exactly that stage's FallbackResult and no
\* later stage, nor any collaborator call of a later stage, is executed.
C2_OrderAndShortCircuit ==
    /\ \A i, j \in DOMAIN fstages :
          i < j => ClaimedIndex(fstages[i].stage) < ClaimedIndex(fstages[j].stage)
    /\ \A i, j \in DOMAIN fcalls :
          i < j => ClaimedIndex(fcalls[i].stage) <= ClaimedIndex(fcalls[j].stage)
    /\ \A i \in DOMAIN fstages :
          fstages[i].result.success =>
              /\ i = Len(fstages)
              /\ fpc = "returned"
              /\ fresult = Some(fstages[i].result)
              /\ \A c \in DOMAIN fcalls :
                    ClaimedIndex(fcalls[c].stage) <= ClaimedIndex(fstages[i].stage)

\* C2 witness: lexical search succeeded after relaxed search and context
\* expansion had both run and failed
C2_Witness ==
    /\ fpc = "returned" /\ fresult # None
    /\ fresult[1].success /\ fresult[1].fallback_used = "lexical_search"
    /\ Len(fstages) = 3

\* lexical search is the only stage the configuration enables
OnlyLexicalEnabled ==
    /\ cfg.fallbacks.enable_lexical_search
    /\ ~cfg.fallbacks.enable_context_expansion
    /\ ~cfg.fallbacks.enable_rule_synthesis
    /\ ~cfg.fallbacks.enable_llm_synthesis

LowScoreOnlyLexical ==
    /\ fin.top_reranker_score < cfg.med_conf
    /\ OnlyLexicalEnabled
    /\ fresult # None /\ fresult[1].confidence_label # "NO_MATCH"

\* C3 as stated: with a score below med_conf and only lexical search enabled,
\* every result that is not NO_MATCH has fallback_used = "lexical_search".
\* (Refuted: relaxed search has no flag and runs first.)
C3_OnlyLexicalOutcome ==
    LowScoreOnlyLexical => fresult[1].fallback_used = "lexical_search"

\* C3 amended: such a result comes from lexical search or from one of the two
\* stages no configuration flag disables, relaxed search and cluster
\* aggregation.
C3_OnlyUnflaggedOrLexical ==
    LowScoreOnlyLexical =>
        fresult[1].fallback_used \in
            {"relaxed_search", "lexical_search", "cluster_aggregation"}

\* C3 witness: lexical search succeeded under that configuration, after
\* relaxed search had failed
C3_Witness ==
    /\ LowScoreOnlyLexical
    /\ fresult[1].fallback_used = "lexical_search"
    /\ Len(fstages) = 2

ChainEnded == fpc \in {"returned", "raised"}

\* C4: if every stage that ran returned success=False the chain returns
\* success=False with no candidates and NO_MATCH, and for every input the
\* chain ends with exactly one FallbackResult.
\* (Refuted: an exception of a collaborator ends the chain with none, see C5.)
C4_EndsWithOneResult ==
    ChainEnded =>
        /\ fresult # None
        /\ (\A i \in DOMAIN fstages : ~fstages[i].result.success) =>
               /\ ~fresult[1].success
               /\ fresult[1].candidates = <<>>
               /\ fresult[1].confidence_label = "NO_MATCH"

\* C5: a failure inside a stage is silent: execute_fallbacks does not raise
\* when a collaborator call fails, it records the stage as failed and goes on.
\* (Refuted: no stage catches anything, the exception leaves the chain.)
C5_StageFailuresAreSilent == fraised = None /\ fpc # "raised"

----------------------------------------------------------------------------
(* Properties of the Normalizer *)

\* C15: normalization is idempotent on its own output: normalizing
\* r.normalized_text gives the same action_verb and the same primary_object
\* as r = normalize(t) has, also when the canonical action was prepended.
\* (Refuted: the prepended canonical token is itself found as the verb.)
C15_NormalizeIdempotent ==
    npc = "done" =>
        /\ nagain[1].action_verb = nres[1].action_verb
        /\ nagain[1].primary_object = nres[1].primary_object

TypeOf(w) ==
    CASE w \in EmailWords  -> "EMAIL"
      [] w \in AmountWords -> "AMOUNT"
      [] w \in DateWords   -> "DATE"
      [] w \in NumberWords -> "NUMBER"
      [] OTHER             -> ""

\* the placeholder types of a text in left-to-right source order; a number
\* followed by "times" is a count and no placeholder
SourceTypes(text) ==
    LET at == SelectSeq([i \in 1 .. Len(text) |-> i],
                  LAMBDA i : /\ TypeOf(text[i]) # ""
                             /\ ~(/\ text[i] \in NumberWords
                                  /\ i < Len(text) /\ text[i + 1] \in CountWords))
    IN  [k \in DOMAIN at |-> TypeOf(text[at[k]])]

ExtractedTypes == [i \in DOMAIN placeholders |-> placeholders[i].type]

\* C16: no NUMBER placeholder is emitted for digits inside a span captured as
\* EMAIL, AMOUNT or DATE, and the placeholders are listed in left-to-right
\* source order; the example text gives exactly AMOUNT, EMAIL, DATE.
\* (Refuted: the list is in pattern order, and positions shifted by the
\* offset let digits of a date through.)
C16_PlaceholderPriority ==
    ppc = "done" =>
        /\ \A i \in DOMAIN placeholders :
              placeholders[i].type = "NUMBER" => placeholders[i].value \in NumberWords
        /\ ExtractedTypes = SourceTypes(ptext)
        /\ ptext = ExampleText => ExtractedTypes = <<"AMOUNT", "EMAIL", "DATE">>

----------------------------------------------------------------------------
(* Properties of the single fallback stages *)

\* the FallbackResults the rule synthesis stage has returned in this call
RuleSynthesisResults ==
    {fstages[i].result : i \in {j \in DOMAIN fstages : fstages[j].stage = "rule_synthesis"}}

Extracted ==
    fin.normalized.action_verb # None /\ fin.normalized.primary_object # None

\* C19: the rule synthesis stage succeeds if and only if normalizing the
\* query gave an action verb and a primary object; on success it returns one
\* synthesized candidate, with id None and the template "<action> the
\* <object>" followed by one tag per extracted placeholder, labelled
\* LOW_CONF; otherwise it returns failure with NO_MATCH.
C19_RuleSynthesis ==
    \A r \in RuleSynthesisResults :
        /\ r.fallback_used = "rule_synthesis"
        /\ r.success <=> Extracted
        /\ r.success =>
              /\ Len(r.candidates) = 1
              /\ r.candidates[1].id = None
              /\ r.confidence_label = "LOW_CONF"
              /\ LET t == r.candidates[1].template
                     p == fin.normalized.placeholders
                 IN  /\ Len(t) = 3 + Len(p)
                     /\ SubSeq(t, 1, 3) = <<fin.normalized.action_verb[1], "the",
                                            fin.normalized.primary_object[1]>>
                     /\ \A i \in DOMAIN p : t[3 + i] = <<"<", p[i], ">">>
        /\ ~r.success => r.candidates = <<>> /\ r.confidence_label = "NO_MATCH"

\* C19 witness: the chain returned a template synthesized from a query that
\* has a placeholder, after the four retrieval stages had failed
C19_Witness ==
    /\ fpc = "returned" /\ fresult # None
    /\ fresult[1].fallback_used = "rule_synthesis" /\ fresult[1].success
    /\ fin.normalized.placeholders # <<>>
    /\ Len(fresult[1].candidates[1].template) = 4

\* the cluster ids that group more than 3 of the retrieved candidates
BigClusters ==
    {c \in ClusterIds \ {0} :
        Cardinality({i \in DOMAIN weak_candidates : weak_candidates[i].cluster_id = c}) > 3}

\* candidate i is a highest-similarity member of cluster c
BestOf(c, i) ==
    /\ weak_candidates[i].cluster_id = c
    /\ \A j \in DOMAIN weak_candidates :
          weak_candidates[j].cluster_id = c
              => weak_candidates[j].sim <= weak_candidates[i].sim

----------------------------------------------------------------------------
(* Properties of Clustering *)

Returned == clpc = "done" /\ filtered_clusters # None /\ cluster_labels # <<>>

\* the indices fit_predict put into the cluster labelled c
LabelledAs(c) == {i \in DOMAIN cluster_labels : cluster_labels[i] = c}

\* C17: every cluster of the returned mapping has at least min_cluster_size
\* member indices and is one of the clusters fit_predict formed; the members
\* of a smaller cluster appear in no returned cluster.
C17_MinimumClusterSize ==
    Returned =>
        LET out == filtered_clusters[1]
        IN  /\ \A c \in DOMAIN out :
                  /\ Len(out[c]) >= clustering[1].min_cluster_size
                  /\ Range(out[c]) = LabelledAs(c)
            /\ \A i \in DOMAIN cluster_labels :
                  Cardinality(LabelledAs(cluster_labels[i])) < clustering[1].min_cluster_size
                      => \A c \in DOMAIN out : i \notin Range(out[c])

\* C17 witness: a cluster was returned while a smaller one was discarded
C17_Witness ==
    /\ Returned
    /\ DOMAIN filtered_clusters[1] # {}
    /\ \E i \in DOMAIN cluster_labels :
          cluster_labels[i] \notin DOMAIN filtered_clusters[1]

Selected == clpc = "done" /\ canonical_template # None

NormalizedOf(i) == cluster_chunks[i].normalized_chunk

Frequency(i) ==
    Cardinality({j \in DOMAIN cluster_chunks : NormalizedOf(j) = NormalizedOf(i)})

\* member i is the first member with its normalized text, and no normalized
\* text is more frequent, nor as frequent and met earlier in the list
FirstOfMostFrequent(i) ==
    /\ \A j \in 1 .. (i - 1) : NormalizedOf(j) # NormalizedOf(i)
    /\ \A j \in DOMAIN cluster_chunks : Frequency(j) <= Frequency(i)
    /\ \A j \in 1 .. (i - 1) : Frequency(j) < Frequency(i)

\* C18: for a non-empty member list select_canonical_template returns the
\* original text of the first member whose normalized text is the most
\* frequent one, ties going to the text that occurs first; for an empty list
\* it returns the empty string.
C18_CanonicalTemplate ==
    Selected =>
        /\ cluster_chunks = <<>> => canonical_template = Some("")
        /\ \A i \in DOMAIN cluster_chunks :
              FirstOfMostFrequent(i) => canonical_template = Some(cluster_chunks[i].original_chunk)

\* C18 witness: two normalized texts are equally frequent, the one met first
\* is not the one of the last member, and the originals differ
C18_Witness ==
    /\ Selected /\ Len(cluster_chunks) = 4
    /\ Frequency(1) = 2 /\ Frequency(4) = 2
    /\ NormalizedOf(1) # NormalizedOf(4)
    /\ cluster_chunks[1].original_chunk # cluster_chunks[4].original_chunk
    /\ canonical_template = Some(cluster_chunks[1].original_chunk)

----------------------------------------------------------------------------
(* Properties of the Chunker *)

\* C12: the chunk_index values of the returned chunks are 0, 1, ..., n-1 in
\* list order, also when a segment longer than max_tokens was re-split into
\* sub-chunks and further segments follow.
\* (Refuted: sub-chunks are numbered len(result), later segments by idx.)
C12_ContiguousChunkIndex ==
    cpc = "done" =>
        \A i \in DOMAIN chunk_result : chunk_result[i].chunk_index = i - 1

RecognizedVerbs(words) == {i \in DOMAIN words : Lower(words[i]) \in chunker_verbs}

\* the text is made of delimiter-separated segments of one recognized action
\* verb each, and the Chunker has its default settings
SingleActionSegments ==
    /\ chunker[1].min_tokens = 3 /\ chunker[1].max_tokens = 20
    /\ \A k \in DOMAIN split_on_delimiters(ctext) :
          Cardinality(RecognizedVerbs(split_on_delimiters(ctext)[k])) = 1

\* C13: k delimiter-separated single-action segments give, with the default
\* settings, exactly k chunks, one per action in left-to-right order, with
\* chunk_index 0 .. k-1.
\* (Refuted: a two-word action is below min_tokens = 3 and is dropped.)
C13_ActionCountAndOrder ==
    (cpc = "done" /\ SingleActionSegments) =>
        /\ Len(chunk_result) = Len(split_on_delimiters(ctext))
        /\ \A k \in DOMAIN chunk_result :
              /\ chunk_result[k].original_chunk = split_on_delimiters(ctext)[k]
              /\ chunk_result[k].chunk_index = k - 1

\* C14: every returned Chunk, sub-chunks of a re-split segment included, has
\* at least min_tokens tokens and at least one recognized action verb.
\* (Refuted: the sub-chunks of _split_long_chunk are not filtered.)
C14_ChunksPassNoiseFilter ==
    cpc = "done" =>
        \A i \in DOMAIN chunk_result :
            /\ Len(chunk_result[i].original_chunk) >= chunker[1].min_tokens
            /\ RecognizedVerbs(chunk_result[i].original_chunk) # {}

----------------------------------------------------------------------------
(* Further properties of MatchingPipeline.match *)

\* reranker.rerank returned, and returned the empty list
RerankedEmpty ==
    /\ \E i \in DOMAIN calls : calls[i].op = "rerank" /\ calls[i].exc = None
    /\ reranked = <<>>

\* C23: when the reranker is invoked on the primary path and returns an empty
\* list, match has returned with the terminal outcome of the no-candidates
\* case: NEW_BDD_REQUIRED, empty top_k_candidates, no selected candidate, no
\* usage increment and no fallback attempt.
C23_EmptyRerankTerminates ==
    RerankedEmpty =>
        /\ pc = "done" /\ result # None
        /\ result[1].final_action = NoCandidatesResult.final_action
        /\ result[1].final_action = "NEW_BDD_REQUIRED"
        /\ result[1].top_k_candidates = <<>>
        /\ result[1].selected_candidate_id = None
        /\ result[1].reranker_score = None
        /\ ~Called("increment") /\ ~Called("execute_fallbacks")
        /\ FallbackIdle

\* C23 witness: vector search returned candidates, the decision was to rerank,
\* and the reranker returned nothing
C23_Witness ==
    /\ RerankedEmpty /\ pc = "done"
    /\ candidates # <<>> /\ should_skip = Some(FALSE)

\* the percentile-gap condition made the decision
SkippedByGap ==
    /\ Decided /\ should_skip = Some(TRUE) /\ skip_reason = "percentile gap"

\* C24: the percentile-gap condition causes a skip only when
\* rank(K-th score) - rank((K+1)-th score) is strictly greater than
\* percentile_gap_threshold, with rank(x) = 100 * #{scores <= x} / #scores.
\* (Refuted: the code compares with >=, a gap equal to the threshold skips.)
C24_GapStrictlyExceeds ==
    SkippedByGap =>
        LET dr == cfg.dynamic_reranking[1]
            s  == Scores(candidates)
            k  == dr.target_top_k
        IN  100 * (RankCount(s[k], s) - RankCount(s[k + 1], s))
                > dr.percentile_gap_threshold * Len(s)

\* the order in which match is claimed to invoke its collaborators
PrimaryOrder ==
    <<"normalize", "embed", "retrieve", "should_skip", "rerank", "increment">>

PrimaryIndex(op) == CHOOSE i \in DOMAIN PrimaryOrder : PrimaryOrder[i] = op

\* C25: no retry on the primary path: within one match call every
\* collaborator is invoked at most once and in the order normalize, embed,
\* vector retrieve, rerank decision, rerank, usage increment; a call that
\* failed is the last call of the match; the reranker is invoked only for a
\* non-empty candidate list on which the decision returned skip=False.
C25_NoRetryInOrder ==
    /\ \A i \in DOMAIN calls : calls[i].op \in Range(PrimaryOrder)
    /\ \A i, j \in DOMAIN calls :
          i < j => PrimaryIndex(calls[i].op) < PrimaryIndex(calls[j].op)
    /\ \A i \in DOMAIN calls :
          calls[i].exc # None => i = Len(calls) /\ pc = "done"
    /\ Called("rerank") => candidates # <<>> /\ should_skip = Some(FALSE)
    /\ Called("increment") => Called("should_skip") /\ Called("retrieve")

\* C25 witness: a match whose reranker call failed: five calls, none repeated
C25_Witness ==
    /\ pc = "done" /\ Len(calls) = 5
    /\ calls[5].op = "rerank" /\ calls[5].exc # None

NoSectionError == <<"'Config' object has no attribute 'dynamic_reranking'">>

\* C28: with a Config built by load_config (no dynamic_reranking section)
\* every match whose vector search returned at least one candidate has ended
\* in the exception path, NEW_BDD_REQUIRED with an "Error:" note, when the
\* rerank decision read the section; REUSED_TEMPLATE and the usage increment
\* are unreachable.
C28_LoadConfigNeverReuses ==
    cfg = load_config(cfg.reranker_top_k, cfg.fallbacks) =>
        /\ (candidates # <<>> /\ pc \notin {"retrieve", "decide"}) =>
              /\ pc = "done"
              /\ result = Some(ErrorResult(NoSectionError))
              /\ calls[Len(calls)].op = "should_skip"
              /\ calls[Len(calls)].exc = Some(NoSectionError)
        /\ result # None => result[1].final_action = "NEW_BDD_REQUIRED"
        /\ ~Called("increment") /\ ~Called("rerank")
        /\ \A i \in DOMAIN usage : usage[i] = 0

\* C28 witness: the second match of a load_config pipeline also ended there
C28_Witness ==
    /\ cfg = load_config(cfg.reranker_top_k, cfg.fallbacks)
    /\ nCalls = MaxCalls /\ pc = "done" /\ candidates # <<>>
    /\ result[1].notes = <<"Error: ", NoSectionError>>

\* C29: a match call that returns NEW_BDD_REQUIRED leaves every usage counter
\* of the store unchanged; the only write match makes is the single increment
\* of the selected candidate's counter, in the step that returns
\* REUSED_TEMPLATE.
C29_OnlyReuseWrites ==
    [][ /\ usage' # usage =>
              /\ pc = "threshold" /\ pc' = "done"
              /\ result'[1].final_action = "REUSED_TEMPLATE"
              /\ \E id \in DOMAIN usage :
                    /\ usage' = [usage EXCEPT ![id] = @ + 1]
                    /\ result'[1].selected_candidate_id = Some(id)
        /\ (pc # "done" /\ pc' = "done"
              /\ result'[1].final_action = "NEW_BDD_REQUIRED") => usage' = usage
        /\ (pc # "done" /\ pc' # "done") => usage' = usage ]_vars

\* C29 witness: a match returned NEW_BDD_REQUIRED past the threshold test
\* while a counter incremented by the earlier match still stands at 1
C29_Witness ==
    /\ pc = "done" /\ nCalls = MaxCalls
    /\ result[1].final_action = "NEW_BDD_REQUIRED"
    /\ result[1].top_k_candidates # <<>>
    /\ \E i \in DOMAIN usage : usage[i] = 1
    /\ \A i \in DOMAIN usage : usage[i] <= 1

----------------------------------------------------------------------------
(* Further properties of FallbackChain *)

RerankingStages == {"relaxed_search", "context_expansion", "lexical_search"}

\* the shape every FallbackResult is claimed to have
WellFormed(r) ==
    /\ r.success => r.candidates # <<>> /\ r.confidence_label \in {"MED_CONF", "LOW_CONF"}
    /\ ~r.success => r.candidates = <<>> /\ r.confidence_label = "NO_MATCH"

\* C27: every FallbackResult produced by execute_fallbacks or by one of its
\* stages has success=True with a non-empty candidate list and a label in
\* {MED_CONF, LOW_CONF}, or success=False with an empty list and NO_MATCH;
\* the three reranking stages label every success MED_CONF.
C27_ResultsWellFormed ==
    /\ \A i \in DOMAIN fstages :
          /\ WellFormed(fstages[i].result)
          /\ fstages[i].result.fallback_used = fstages[i].stage
          /\ (fstages[i].stage \in RerankingStages /\ fstages[i].result.success)
                => fstages[i].result.confidence_label = "MED_CONF"
    /\ fresult # None => WellFormed(fresult[1])

\* C27 witness: context expansion succeeded, after relaxed search had failed
C27_Witness ==
    /\ fpc = "returned" /\ Len(fstages) = 2
    /\ fstages[1].stage = "relaxed_search" /\ ~fstages[1].result.success
    /\ fresult[1].fallback_used = "context_expansion"
    /\ fresult[1].confidence_label = "MED_CONF"
    /\ Len(fresult[1].candidates) >= 2

StageRan(stage) == \E i \in DOMAIN fcalls : fcalls[i].stage = stage

StageReturned(stage) == \E i \in DOMAIN fstages : fstages[i].stage = stage

\* the condition each later stage is claimed to run under
OwnCondition(stage) ==
    CASE stage = "context_expansion"   -> cfg.fallbacks.enable_context_expansion
                                          /\ fin.previous_steps # <<>>
      [] stage = "lexical_search"      -> cfg.fallbacks.enable_lexical_search
      [] stage = "cluster_aggregation" -> TRUE
      [] stage = "rule_synthesis"      -> cfg.fallbacks.enable_rule_synthesis
      [] stage = "llm_synthesis"       -> cfg.fallbacks.enable_llm_synthesis

\* the chain has gone past the position of `stage` without returning or raising
Passed(stage) ==
    \/ fpc = "final"
    \/ /\ fpc \in Range(ClaimedOrder)
       /\ ClaimedIndex(fpc) > ClaimedIndex(stage)
    \/ /\ fpc = "returned" /\ ~fresult[1].success

\* C30: the comparison of top_reranker_score with med_conf gates only the
\* relaxed search: with a score >= med_conf relaxed search is skipped, and
\* every later stage the chain comes to runs exactly under its own condition,
\* whatever the score; cluster aggregation runs unconditionally.
C30_ThresholdGatesOnlyRelaxed ==
    /\ fin.top_reranker_score >= cfg.med_conf =>
          ~StageRan("relaxed_search") /\ ~StageReturned("relaxed_search")
    /\ (fin.top_reranker_score < cfg.med_conf /\ fpc # "relaxed_search") =>
          StageRan("relaxed_search")
    /\ \A stage \in Range(ClaimedOrder) \ {"relaxed_search"} :
          Passed(stage) => (StageReturned(stage) <=> OwnCondition(stage))
    /\ Passed("cluster_aggregation") => StageReturned("cluster_aggregation")

\* C30 witness: success returned for a score that is not below med_conf, by
\* cluster aggregation, with every configurable stage disabled
C30_Witness ==
    /\ fin.top_reranker_score >= cfg.med_conf
    /\ ~cfg.fallbacks.enable_context_expansion /\ ~cfg.fallbacks.enable_lexical_search
    /\ ~cfg.fallbacks.enable_rule_synthesis /\ ~cfg.fallbacks.enable_llm_synthesis
    /\ fpc = "returned" /\ fresult[1].success
    /\ fresult[1].fallback_used = "cluster_aggregation"
    /\ fstages = <<[stage |-> "cluster_aggregation", result |-> fresult[1]]>>

----------------------------------------------------------------------------
(* Properties of the Embedder *)

\* C21: a race on the embedding cache is only a performance cost: under any
\* interleaving of concurrent embed calls for the same text that share one
\* cache directory, no call raises and every call that has returned has
\* returned the embedding of that text.
\* (Refuted: a caller that finds the file another caller has just opened for
\* writing unpickles an empty file and raises.)
C21_RaceOnlyCostsTime ==
    \A c \in DOMAIN epc :
        /\ epc[c] # "raised"
        /\ eret[c] # None =>
              /\ eret[c][1].raised = None
              /\ eret[c][1].value = Some(Encode(etext[c]))

\* the last call has returned, and t was its text or one of its texts
ReturnedFor(t) ==
    /\ epc = <<"returned">>
    /\ t = etext[1] \/ t \in Range(batch_texts)

\* C26: the embedding cache is read-through and write-through in sequential
\* use: once embed(t), or embed_batch on a list containing t, has returned,
\* the key of t is in the memory cache and on disk with the embedding of t,
\* and over any sequence of embed and embed_batch calls on one Embedder the
\* model encodes each distinct text at most once.
\* (Refuted: embed_batch encodes a text once per occurrence in its list.)
C26_ReadThroughWriteThrough ==
    \A t \in DOMAIN encoded :
        /\ ReturnedFor(t) =>
              /\ ecache[1][get_cache_key(t)] = Some(Encode(t))
              /\ edisk[get_cache_key(t)] = Dumped(Encode(t))
        /\ encoded[t] <= 1

----------------------------------------------------------------------------
(* Properties of the BatchProcessor *)

\* the rows the loop is claimed to match: those within the limit that have a
\* non-empty original_chunk and parent_testcase_id, by position
WithinLimit ==
    IF blimit = 0 \/ blimit > Len(brows) THEN Len(brows) ELSE blimit

ClaimedRows ==
    {i \in 1 .. WithinLimit :
        brows[i].original_chunk # "" /\ brows[i].parent_testcase_id # ""}

SequentialAndTotal ==
    /\ bpc # "raised" /\ braised = None
    /\ nCalls = Len(results)
    /\ \A i, j \in DOMAIN results : i < j => results[i].row < results[j].row
    /\ \A j \in DOMAIN results :
          /\ results[j].row \in ClaimedRows
          /\ results[j].result.notes[1] = "Error: "
                => results[j].result.final_action = "NEW_BDD_REQUIRED"
    /\ bpc \in {"write", "returned"} =>
          {results[j].row : j \in DOMAIN results} = ClaimedRows

ParsedRows ==
    bformat = "csv" =>
        \A i \in 1 .. WithinLimit : brows[i].chunk_index \in IntegerLiterals

====
